---- MODULE Spec2Model ----
(***************************************************************************)
(* Transfer engine of kip: Scanner (engine/scanner.rs), Copier             *)
(* (engine/copier.rs), Scheduler (engine/scheduler.rs) and the review      *)
(* resolution of the UI (ui/review_queue.rs), over an abstract Job Store   *)
(* holding intent, transfer_job and review_item records.                   *)
(***************************************************************************)
EXTENDS Integers, Sequences, FiniteSets, TLC

(***************************************************************************)
(* Program constants.                                                      *)
(***************************************************************************)
MAX_CONCURRENCY == 4

CHUNK_SIZE == 262144

PROGRESS_INTERVAL == 4

DEFAULT_MAX_ATTEMPTS == 3

(***************************************************************************)
(* Bounds of the model.                                                    *)
(***************************************************************************)
\* size in bytes of a file that fits in one chunk
SmallSize == 5

\* faults of the environment in one behaviour: a Job Store operation that
\* fails, or a panic of the blocking copy pipeline
MaxFaults == 1

\* retry/rescan resolutions in one behaviour
MaxRetries == 1

\* scans of one intent that create jobs, where scan_intent is called again
MaxScans == 2

\* a file whose copy issues one progress update
BigSize == PROGRESS_INTERVAL * CHUNK_SIZE

NONE == "NONE"

(***************************************************************************)
(* Copier: error taxonomy (engine/copier.rs).                              *)
(***************************************************************************)
\* io::ErrorKind categories the filesystem can report
IoErrorKinds == {"NotFound", "PermissionDenied", "StorageFull", "Other"}

\* what the filesystem does to one stretch of the copy pipeline:
\* nothing, an I/O error, or bytes landing on disk that differ from the source
FsFaults == {"none", "corrupt"} \cup IoErrorKinds

\* the mapping without the arm for StorageFull
map_io_error_NoStorageFull(kind) ==
    CASE kind = "NotFound" -> "SourceNotFound"
      [] kind = "PermissionDenied" -> "PermissionDenied"
      [] OTHER -> "IoError"

map_io_error(kind) ==
    CASE kind = "NotFound" -> "SourceNotFound"
      [] kind = "PermissionDenied" -> "PermissionDenied"
      [] kind = "StorageFull" -> "DiskFull"
      [] OTHER -> "IoError"

is_retryable(err) == err = "IoError"

classify_error(err) ==
    CASE err = "SourceNotFound" -> "source_missing"
      [] err = "PermissionDenied" -> "permission_denied"
      [] err = "DiskFull" -> "disk_full"
      [] err = "HashMismatch" -> "hash_mismatch"
      [] err = "IoError" -> "io_error"
      [] OTHER -> "internal"

\* the options of a missing source in the other order
resolution_options_RescanFirst(error_kind) ==
    CASE error_kind = "source_missing" -> <<"rescan", "skip">>
      [] error_kind = "permission_denied" -> <<"retry", "skip">>
      [] error_kind = "disk_full" -> <<"retry", "skip">>
      [] error_kind = "hash_mismatch" -> <<"retry", "skip", "accept">>
      [] error_kind = "io_error" -> <<"retry", "skip">>
      [] OTHER -> <<"skip">>

resolution_options(error_kind) ==
    CASE error_kind = "source_missing" -> <<"skip", "rescan">>
      [] error_kind = "permission_denied" -> <<"retry", "skip">>
      [] error_kind = "disk_full" -> <<"retry", "skip">>
      [] error_kind = "hash_mismatch" -> <<"retry", "skip", "accept">>
      [] error_kind = "io_error" -> <<"retry", "skip">>
      [] OTHER -> <<"skip">>

\* the attempt budget compared with <= instead of <
FailureStatus_OneMore(err, new_attempts, max_attempts) ==
    IF is_retryable(err) /\ new_attempts <= max_attempts
    THEN "pending"
    ELSE "needs_review"

\* copy_job step 5: the status a failed attempt is written with
FailureStatus(err, new_attempts, max_attempts) ==
    IF is_retryable(err) /\ new_attempts < max_attempts
    THEN "pending"
    ELSE "needs_review"

\* a hash field that holds no digest
NoHash == <<>>

\* blake3 digest of a byte content
Hash(content) == <<"blake3", content>>

\* bytes that landed on disk when the write was silently corrupted
Corrupted(content) == <<<<"corrupt">> \o content[1], content[2]>>

\* the copy reported verified without comparing the two digests
Verify_NoCompare(src_content, dst_content, bytes) ==
    [ok |-> TRUE, err |-> NONE, bytes_copied |-> bytes,
     source_hash |-> Hash(src_content), dest_hash |-> Hash(dst_content)]

\* the end of copy_and_hash: finalize the source hash, re-read the destination,
\* compare
Verify(src_content, dst_content, bytes) ==
    LET source_hash == Hash(src_content)
        dest_hash == Hash(dst_content)
    IN IF source_hash = dest_hash
       THEN [ok |-> TRUE, err |-> NONE, bytes_copied |-> bytes,
             source_hash |-> source_hash, dest_hash |-> dest_hash]
       ELSE [ok |-> FALSE, err |-> "HashMismatch", bytes_copied |-> bytes,
             source_hash |-> source_hash, dest_hash |-> dest_hash]

Failed(err) ==
    [ok |-> FALSE, err |-> err, bytes_copied |-> 0,
     source_hash |-> NoHash, dest_hash |-> NoHash]

NoResult ==
    [ok |-> FALSE, err |-> NONE, bytes_copied |-> 0,
     source_hash |-> NoHash, dest_hash |-> NoHash]

(***************************************************************************)
(* State.                                                                  *)
(***************************************************************************)
VARIABLES
    fs,        \* per intent: the source tree and the locations
    intents,   \* Job Store: intent records
    jobs,      \* Job Store: transfer_job records, by id
    reviews,   \* Job Store: review_item records, by id
    scans,     \* per intent: the scan_intent call in progress
    runs,      \* per run slot: the run_intent call in progress
    tasks,     \* the copy tasks spawned by the runs
    resolves,  \* the resolve_item calls in progress
    budget     \* what the environment may still do

vars == <<fs, intents, jobs, reviews, scans, runs, tasks, resolves, budget>>

IntentIds == DOMAIN intents

JobIds == DOMAIN jobs

ReviewIds == DOMAIN reviews

RunIds == DOMAIN runs

JobsOf(i) == {j \in JobIds : jobs[j].intent = i}

\* the unresolved review items of a job
OpenItems(j) == {v \in ReviewIds : reviews[v].job = j /\ reviews[v].resolution = NONE}

\* a Job Store operation succeeds, or fails while the environment may still
\* fail one
DbOutcomes == IF budget.faults > 0 THEN {TRUE, FALSE} ELSE {TRUE}

SpendDb(ok) == IF ok THEN budget ELSE [budget EXCEPT !.faults = @ - 1]

(***************************************************************************)
(* Scanner (engine/scanner.rs).                                            *)
(***************************************************************************)
SourceRoot(i) == <<"src", i>>

DestRoot(i, d) == <<"dst", i, d>>

\* format!("{base}/{relative}")
JoinPath(root, relative) == <<root, relative>>

RECURSIVE WalkFrom(_, _)
\* the loop of walk_source over the directory entries from position n on
WalkFrom(tree, n) ==
    IF n > Len(tree)
    THEN [entries |-> <<>>, skipped |-> 0]
    ELSE LET rest == WalkFrom(tree, n + 1)
             entry == tree[n]
         IN CASE entry.kind = "walk_error" ->
                     [rest EXCEPT !.skipped = @ + 1]
              [] entry.kind = "dir" -> rest
              [] entry.kind = "symlink" ->
                     [rest EXCEPT !.skipped = @ + 1]
              [] entry.kind = "no_metadata" ->
                     [rest EXCEPT !.skipped = @ + 1]
              [] OTHER ->
                     [rest EXCEPT !.entries =
                         <<[relative_path |-> n, size |-> entry.size]>> \o @]

\* the walk that counts a directory as skipped, like a symlink
walk_source_DirsSkipped(tree) ==
    LET w == WalkFrom(tree, 1)
    IN [w EXCEPT !.skipped =
           @ + Cardinality({n \in 1..Len(tree) : tree[n].kind = "dir"})]

walk_source(tree) == WalkFrom(tree, 1)

RECURSIVE SumSizes(_)
SumSizes(entries) ==
    IF entries = <<>> THEN 0 ELSE Head(entries).size + SumSizes(Tail(entries))

\* the record with the destination path built on the first destination
NewJob_FirstDest(i, d, entry) ==
    [intent |-> i,
     source_path |-> JoinPath(SourceRoot(i), entry.relative_path),
     dest_path |-> JoinPath(DestRoot(i, 1), entry.relative_path),
     destination |-> d,
     size |-> entry.size,
     bytes_transferred |-> 0,
     status |-> "pending",
     attempts |-> 0,
     max_attempts |-> DEFAULT_MAX_ATTEMPTS,
     last_error |-> NONE,
     error_kind |-> NONE,
     source_hash |-> NoHash,
     dest_hash |-> NoHash]

\* the record create_transfer_jobs creates for one (destination, entry) pair
NewJob(i, d, entry) ==
    [intent |-> i,
     source_path |-> JoinPath(SourceRoot(i), entry.relative_path),
     dest_path |-> JoinPath(DestRoot(i, d), entry.relative_path),
     destination |-> d,
     size |-> entry.size,
     bytes_transferred |-> 0,
     status |-> "pending",
     attempts |-> 0,
     max_attempts |-> DEFAULT_MAX_ATTEMPTS,
     last_error |-> NONE,
     error_kind |-> NONE,
     source_hash |-> NoHash,
     dest_hash |-> NoHash]

\* a fresh record id of the transfer_job table
FreshJobId(i) == <<i, Cardinality(JobsOf(i)) + 1>>

ScanIdle == [pc |-> "idle", entries |-> <<>>, skipped |-> 0, d |-> 1, e |-> 1,
             jobs_created |-> 0, ret |-> NONE]

ScanActive(i) == scans[i].pc \in {"start", "walk", "create", "final"}

\* scan_intent is called: load_intent finds the intent
ScanInvoke(i) ==
    /\ ~ScanActive(i)
    /\ scans' = [scans EXCEPT ![i] = [ScanIdle EXCEPT !.pc = "start"]]
    /\ UNCHANGED <<fs, intents, jobs, reviews, runs, tasks, resolves, budget>>

\* scan_intent is called with an id of no record: load_intent returns
\* IntentNotFound, or DbError when its query fails
ScanNotFound(i) ==
    /\ i \notin IntentIds
    /\ scans[i].pc = "idle"
    /\ \E ok \in DbOutcomes :
          /\ budget' = SpendDb(ok)
          /\ scans' = [scans EXCEPT ![i].pc = "error",
                                    ![i].ret = IF ok THEN "IntentNotFound" ELSE "DbError"]
    /\ UNCHANGED <<fs, intents, jobs, reviews, runs, tasks, resolves>>

\* step 2: UPDATE $id SET status = 'scanning'
ScanStart(i) ==
    /\ scans[i].pc = "start"
    /\ \E ok \in DbOutcomes :
          /\ budget' = SpendDb(ok)
          /\ IF ok
             THEN /\ intents' = [intents EXCEPT ![i].status = "scanning"]
                  /\ scans' = [scans EXCEPT ![i].pc = "walk"]
             ELSE /\ scans' = [scans EXCEPT ![i].pc = "error", ![i].ret = "DbError"]
                  /\ UNCHANGED intents
    /\ UNCHANGED <<fs, jobs, reviews, runs, tasks, resolves>>

\* the scan that does not resolve the destinations before it creates jobs
ScanWalk_NoDestCheck(i) ==
    /\ scans[i].pc = "walk"
    /\ LET w == walk_source(fs[i].tree)
           fail(e) == scans' = [scans EXCEPT ![i].pc = "error", ![i].ret = e]
       IN CASE fs[i].source = "no_location" -> fail("SourceLocationNotFound")
            [] fs[i].source = "missing" -> fail("SourcePathNotExists")
            [] fs[i].source = "file" -> fail("SourcePathNotDir")
            [] OTHER ->
                   scans' = [scans EXCEPT ![i].entries = w.entries,
                                          ![i].skipped = w.skipped,
                                          ![i].pc = IF Len(w.entries) = 0 \/ Len(fs[i].dests) = 0
                                                    THEN "final" ELSE "create"]
    /\ UNCHANGED <<fs, intents, jobs, reviews, runs, tasks, resolves, budget>>

\* steps 3 to 5: resolve the source location, walk it, resolve the destinations
ScanWalk(i) ==
    /\ scans[i].pc = "walk"
    /\ LET w == walk_source(fs[i].tree)
           fail(e) == scans' = [scans EXCEPT ![i].pc = "error", ![i].ret = e]
       IN CASE fs[i].source = "no_location" -> fail("SourceLocationNotFound")
            [] fs[i].source = "missing" -> fail("SourcePathNotExists")
            [] fs[i].source = "file" -> fail("SourcePathNotDir")
            [] fs[i].source = "dir" /\ \E d \in 1..Len(fs[i].dests) : fs[i].dests[d] = "no_location" ->
                   fail("DestLocationNotFound")
            [] OTHER ->
                   scans' = [scans EXCEPT ![i].entries = w.entries,
                                          ![i].skipped = w.skipped,
                                          ![i].pc = IF Len(w.entries) = 0 \/ Len(fs[i].dests) = 0
                                                    THEN "final" ELSE "create"]
    /\ UNCHANGED <<fs, intents, jobs, reviews, runs, tasks, resolves, budget>>

\* the creation that leaves out a pair that has a job in the store
ScanCreate_SkipExisting(i) ==
    /\ scans[i].pc = "create"
    /\ LET s == scans[i]
           last == s.e = Len(s.entries) /\ s.d = Len(fs[i].dests)
           new == NewJob(i, s.d, s.entries[s.e])
           exists == \E j \in JobsOf(i) : /\ jobs[j].source_path = new.source_path
                                           /\ jobs[j].dest_path = new.dest_path
       IN /\ jobs' = IF exists THEN jobs ELSE jobs @@ (FreshJobId(i) :> new)
          /\ scans' = [scans EXCEPT
                 ![i].jobs_created = IF exists THEN @ ELSE @ + 1,
                 ![i].e = IF s.e = Len(s.entries) THEN 1 ELSE s.e + 1,
                 ![i].d = IF s.e = Len(s.entries) THEN s.d + 1 ELSE s.d,
                 ![i].pc = IF last THEN "final" ELSE "create"]
    /\ UNCHANGED <<fs, intents, reviews, runs, tasks, resolves, budget>>

\* step 6, one turn of the loops of create_transfer_jobs: CREATE transfer_job
ScanCreate(i) ==
    /\ scans[i].pc = "create"
    /\ LET s == scans[i]
           last == s.e = Len(s.entries) /\ s.d = Len(fs[i].dests)
       IN \E ok \in DbOutcomes :
             /\ budget' = SpendDb(ok)
             /\ IF ok
                THEN /\ jobs' = jobs @@ (FreshJobId(i) :> NewJob(i, s.d, s.entries[s.e]))
                     /\ scans' = [scans EXCEPT
                            ![i].jobs_created = @ + 1,
                            ![i].e = IF s.e = Len(s.entries) THEN 1 ELSE s.e + 1,
                            ![i].d = IF s.e = Len(s.entries) THEN s.d + 1 ELSE s.d,
                            ![i].pc = IF last THEN "final" ELSE "create"]
                ELSE /\ scans' = [scans EXCEPT ![i].pc = "error", ![i].ret = "DbError"]
                     /\ UNCHANGED jobs
    /\ UNCHANGED <<fs, intents, reviews, runs, tasks, resolves>>

\* the totals with the status transferring also when no job was created
ScanTotals_AlwaysTransferring(entries, ndest) ==
    LET total_jobs == Len(entries) * ndest
    IN [status |-> "transferring",
        total_files |-> total_jobs,
        total_bytes |-> SumSizes(entries) * ndest]

\* the totals counted per file, the destinations left out
ScanTotals_FilesOnly(entries, ndest) ==
    LET total_jobs == Len(entries)
    IN [status |-> IF total_jobs = 0 THEN "complete" ELSE "transferring",
        total_files |-> total_jobs,
        total_bytes |-> SumSizes(entries)]

\* step 7: the totals and the status the scan leaves on the intent
ScanTotals(entries, ndest) ==
    LET total_jobs == Len(entries) * ndest
    IN [status |-> IF total_jobs = 0 THEN "complete" ELSE "transferring",
        total_files |-> total_jobs,
        total_bytes |-> SumSizes(entries) * ndest]

ScanFinal(i) ==
    /\ scans[i].pc = "final"
    /\ LET t == ScanTotals(scans[i].entries, Len(fs[i].dests))
       IN \E ok \in DbOutcomes :
             /\ budget' = SpendDb(ok)
             /\ IF ok
                THEN /\ intents' = [intents EXCEPT ![i].status = t.status,
                                                   ![i].total_files = t.total_files,
                                                   ![i].total_bytes = t.total_bytes]
                     /\ scans' = [scans EXCEPT ![i].pc = "done", ![i].ret = "Ok"]
                ELSE /\ scans' = [scans EXCEPT ![i].pc = "error", ![i].ret = "DbError"]
                     /\ UNCHANGED intents
    /\ UNCHANGED <<fs, jobs, reviews, runs, tasks, resolves>>

(***************************************************************************)
(* Copier (engine/copier.rs): copy_job, as run by one spawned task.        *)
(***************************************************************************)
TasksOf(r) == {t \in tasks : t.run = r}

Running(t) == t.pc # "done"

SetTask(t, u) == (tasks \ {t}) \cup {u}

\* the task ends and keeps its permit
Finish_KeepsPermit(t, ret) ==
    /\ tasks' = SetTask(t, [t EXCEPT !.pc = "done", !.ret = ret])
    /\ runs' = runs

\* the task ends: drop(permit), and the handle yields (job_id, result)
Finish(t, ret) ==
    /\ tasks' = SetTask(t, [t EXCEPT !.pc = "done", !.ret = ret])
    /\ runs' = [runs EXCEPT ![t.run].permits = @ + 1]

\* step 1: load_job
CopyLoad(t) ==
    /\ t.pc = "load"
    /\ \E ok \in DbOutcomes :
          /\ budget' = SpendDb(ok)
          /\ IF ok
             THEN /\ tasks' = SetTask(t, [t EXCEPT !.pc = "claim",
                                                   !.intent = jobs[t.job].intent,
                                                   !.attempts = jobs[t.job].attempts,
                                                   !.max_attempts = jobs[t.job].max_attempts])
                  /\ UNCHANGED runs
             ELSE Finish(t, "DbError")
    /\ UNCHANGED <<fs, intents, jobs, reviews, scans, resolves>>

\* the claim as one conditional update: a job that is no longer pending is
\* left to the task that has it
CopyClaim_IfPending(t) ==
    /\ t.pc = "claim"
    /\ \E ok \in DbOutcomes :
          /\ budget' = SpendDb(ok)
          /\ IF ok /\ jobs[t.job].status = "pending"
             THEN /\ jobs' = [jobs EXCEPT ![t.job].status = "transferring"]
                  /\ tasks' = SetTask(t, [t EXCEPT !.pc = "pipe"])
                  /\ UNCHANGED runs
             ELSE /\ Finish(t, IF ok THEN "JobNotFound" ELSE "DbError")
                  /\ UNCHANGED jobs
    /\ UNCHANGED <<fs, intents, reviews, scans, resolves>>

\* the claim whose failure is dropped: the pipeline starts all the same
CopyClaim_Swallowed(t) ==
    /\ t.pc = "claim"
    /\ \E ok \in DbOutcomes :
          /\ budget' = SpendDb(ok)
          /\ jobs' = IF ok THEN [jobs EXCEPT ![t.job].status = "transferring"] ELSE jobs
          /\ tasks' = SetTask(t, [t EXCEPT !.pc = "pipe"])
          /\ UNCHANGED runs
    /\ UNCHANGED <<fs, intents, reviews, scans, resolves>>

\* step 2: UPDATE $id SET status = 'transferring'
CopyClaim(t) ==
    /\ t.pc = "claim"
    /\ \E ok \in DbOutcomes :
          /\ budget' = SpendDb(ok)
          /\ IF ok
             THEN /\ jobs' = [jobs EXCEPT ![t.job].status = "transferring"]
                  /\ tasks' = SetTask(t, [t EXCEPT !.pc = "pipe"])
                  /\ UNCHANGED runs
             ELSE /\ Finish(t, "DbError")
                  /\ UNCHANGED jobs
    /\ UNCHANGED <<fs, intents, reviews, scans, resolves>>

\* the bytes of the source file of a job
Content(j) == jobs[j].source_path

\* the pipeline in which a failed progress update ends the copy with an error
CopyStretch_FatalProgress(t, f) ==
    LET j == t.job
        left == jobs[j].size - t.copied
        more == t.copied + PROGRESS_INTERVAL * CHUNK_SIZE
    IN IF f \in IoErrorKinds
       THEN /\ tasks' = SetTask(t, [t EXCEPT !.pc = "final", !.res = Failed(map_io_error(f))])
            /\ UNCHANGED <<jobs, budget>>
       ELSE IF left >= PROGRESS_INTERVAL * CHUNK_SIZE
       THEN \E ok \in DbOutcomes :
               /\ budget' = SpendDb(ok)
               /\ jobs' = IF ok THEN [jobs EXCEPT ![j].bytes_transferred = more] ELSE jobs
               /\ tasks' = IF ok
                           THEN SetTask(t, [t EXCEPT !.copied = more,
                                                     !.corrupt = t.corrupt \/ f = "corrupt"])
                           ELSE SetTask(t, [t EXCEPT !.pc = "final", !.res = Failed("IoError")])
       ELSE /\ tasks' = SetTask(t, [t EXCEPT
                           !.pc = "final",
                           !.copied = jobs[j].size,
                           !.res = Verify(Content(j),
                                          IF t.corrupt \/ f = "corrupt"
                                          THEN Corrupted(Content(j)) ELSE Content(j),
                                          jobs[j].size)])
            /\ UNCHANGED <<jobs, budget>>

\* copy_and_hash from the last progress update on: PROGRESS_INTERVAL more chunks
\* and update_progress (its failure is ignored), or the rest of the file and
\* the verification; f is what the filesystem does on that stretch
CopyStretch(t, f) ==
    LET j == t.job
        left == jobs[j].size - t.copied
        more == t.copied + PROGRESS_INTERVAL * CHUNK_SIZE
    IN IF f \in IoErrorKinds
       THEN /\ tasks' = SetTask(t, [t EXCEPT !.pc = "final", !.res = Failed(map_io_error(f))])
            /\ UNCHANGED <<jobs, budget>>
       ELSE IF left >= PROGRESS_INTERVAL * CHUNK_SIZE
       THEN /\ tasks' = SetTask(t, [t EXCEPT !.copied = more,
                                             !.corrupt = t.corrupt \/ f = "corrupt"])
            /\ \E ok \in DbOutcomes :
                  /\ budget' = SpendDb(ok)
                  /\ jobs' = IF ok THEN [jobs EXCEPT ![j].bytes_transferred = more] ELSE jobs
       ELSE /\ tasks' = SetTask(t, [t EXCEPT
                           !.pc = "final",
                           !.copied = jobs[j].size,
                           !.res = Verify(Content(j),
                                          IF t.corrupt \/ f = "corrupt"
                                          THEN Corrupted(Content(j)) ELSE Content(j),
                                          jobs[j].size)])
            /\ UNCHANGED <<jobs, budget>>

\* step 3: the pipeline on the blocking thread
CopyPipeline(t, faults) ==
    /\ t.pc = "pipe"
    /\ \E f \in faults : CopyStretch(t, f)
    /\ UNCHANGED <<fs, intents, reviews, scans, runs, resolves>>

\* step 3, the blocking thread panics: the join error leaves copy_job as an
\* IoError through `?`, before any write
CopyPanic(t) ==
    /\ t.pc = "pipe"
    /\ budget.faults > 0
    /\ budget' = [budget EXCEPT !.faults = @ - 1]
    /\ Finish(t, "IoError")
    /\ UNCHANGED <<fs, intents, jobs, reviews, scans, resolves>>

\* the completing write without the byte count
CompleteWrite_NoBytes(job, res) ==
    [job EXCEPT !.status = "complete",
                !.source_hash = res.source_hash,
                !.dest_hash = res.dest_hash]

\* step 4: the write that marks the job complete
CompleteWrite(job, res) ==
    [job EXCEPT !.status = "complete",
                !.source_hash = res.source_hash,
                !.dest_hash = res.dest_hash,
                !.bytes_transferred = res.bytes_copied]

\* the failure write that records the error only on the way to review
FailureWrite_ErrorOnReview(job, err, attempts, max_attempts) ==
    LET status == FailureStatus(err, attempts + 1, max_attempts)
    IN [job EXCEPT !.status = status,
                   !.attempts = attempts + 1,
                   !.last_error = IF status = "needs_review" THEN err ELSE @,
                   !.error_kind = IF status = "needs_review" THEN classify_error(err) ELSE @]

\* the failure write with the attempt counter left as loaded
FailureWrite_NoIncrement(job, err, attempts, max_attempts) ==
    [job EXCEPT !.status = FailureStatus(err, attempts + 1, max_attempts),
                !.attempts = attempts,
                !.last_error = err,
                !.error_kind = classify_error(err)]

\* step 5: the write after a failed attempt
FailureWrite(job, err, attempts, max_attempts) ==
    [job EXCEPT !.status = FailureStatus(err, attempts + 1, max_attempts),
                !.attempts = attempts + 1,
                !.last_error = err,
                !.error_kind = classify_error(err)]

\* steps 4 and 5: the final write of the attempt
CopyFinal(t) ==
    /\ t.pc = "final"
    /\ LET j == t.job
           new_status == FailureStatus(t.res.err, t.attempts + 1, t.max_attempts)
       IN \E ok \in DbOutcomes :
             /\ budget' = SpendDb(ok)
             /\ IF ~ok
                THEN /\ Finish(t, "DbError")
                     /\ UNCHANGED jobs
                ELSE IF t.res.ok
                THEN /\ jobs' = [jobs EXCEPT ![j] = CompleteWrite(@, t.res)]
                     /\ Finish(t, "Ok")
                ELSE /\ jobs' = [jobs EXCEPT ![j] =
                                    FailureWrite(@, t.res.err, t.attempts, t.max_attempts)]
                     /\ IF new_status = "needs_review"
                        THEN /\ tasks' = SetTask(t, [t EXCEPT !.pc = "review"])
                             /\ UNCHANGED runs
                        ELSE Finish(t, t.res.err)
    /\ UNCHANGED <<fs, intents, reviews, scans, resolves>>

\* a fresh record id of the review_item table
FreshReviewId(j) == <<j, Cardinality({v \in ReviewIds : v[1] = j}) + 1>>

\* the review_item record copy_job creates
NewReview(t) ==
    LET error_kind == classify_error(t.res.err)
    IN [job |-> t.job,
        intent |-> t.intent,
        error_kind |-> error_kind,
        error_message |-> t.res.err,
        source_path |-> jobs[t.job].source_path,
        dest_path |-> jobs[t.job].dest_path,
        options |-> resolution_options(error_kind),
        resolution |-> NONE,
        resolved_at |-> NONE]

\* CREATE review_item; its result is dropped (`let _ =`)
CopyReview(t) ==
    /\ t.pc = "review"
    /\ \E ok \in DbOutcomes :
          /\ budget' = SpendDb(ok)
          /\ reviews' = IF ok THEN reviews @@ (FreshReviewId(t.job) :> NewReview(t))
                              ELSE reviews
    /\ Finish(t, t.res.err)
    /\ UNCHANGED <<fs, intents, jobs, scans, resolves>>

(***************************************************************************)
(* Scheduler (engine/scheduler.rs): run_intent.                            *)
(***************************************************************************)
RECURSIVE InStoreOrder(_)
\* the rows of a query, in the Job Store's order
InStoreOrder(S) ==
    IF S = {} THEN <<>>
    ELSE LET first == CHOOSE j \in S : \A k \in S : j[2] <= k[2]
         IN <<first>> \o InStoreOrder(S \ {first})

\* the batch query without its status filter
get_pending_jobs_AnyStatus(i) ==
    InStoreOrder({j \in JobIds : jobs[j].intent = i})

\* SELECT id FROM transfer_job WHERE intent = $intent_id AND status = 'pending'
get_pending_jobs(i) ==
    InStoreOrder({j \in JobIds : jobs[j].intent = i /\ jobs[j].status = "pending"})

CountStatus(i, status) ==
    Cardinality({j \in JobIds : jobs[j].intent = i /\ jobs[j].status = status})

compute_result(i) ==
    [completed |-> CountStatus(i, "complete"),
     needs_review |-> CountStatus(i, "needs_review"),
     failed |-> CountStatus(i, "failed")]

\* the final status decided on the failed count
FinalStatus_OnFailed(result) == IF result.failed > 0 THEN "needs_review" ELSE "complete"

\* the status finalize_intent writes
FinalStatus(result) == IF result.needs_review > 0 THEN "needs_review" ELSE "complete"

NoCounts == [completed |-> 0, needs_review |-> 0, failed |-> 0]

\* a run_intent call that has not started; spawned counts, per job, the copy
\* tasks the dispatch loop of the call has spawned so far
RunIdle == [pc |-> "idle", batch |-> <<>>, next |-> 1, permits |-> 0,
            recovered |-> 0, spawned |-> <<>>, result |-> NoCounts, ret |-> NONE]

\* the count of job j in the counts c, one higher
CountOneMore(c, j) ==
    IF j \in DOMAIN c THEN [c EXCEPT ![j] = @ + 1] ELSE c @@ (j :> 1)

RunActive(r) == runs[r].pc \in {"recover", "query", "dispatch", "await", "count", "finalize"}

\* the intent a run slot serves
IntentOf(r) == r[1]

RunFail(r, e) == runs' = [runs EXCEPT ![r].pc = "error", ![r].ret = e, ![r].spawned = <<>>]

\* run_intent is called and finds the intent
RunInvoke(r) ==
    /\ ~RunActive(r)
    /\ runs' = [runs EXCEPT ![r] = [RunIdle EXCEPT !.pc = "recover"]]
    /\ UNCHANGED <<fs, intents, jobs, reviews, scans, tasks, resolves, budget>>

\* the recovery that spares a job a copy task is working on
Recovered_NotInFlight(i) ==
    [j \in JobIds |->
        IF /\ jobs[j].intent = i
           /\ jobs[j].status = "transferring"
           /\ ~\E t \in tasks : t.job = j /\ Running(t)
        THEN [jobs[j] EXCEPT !.status = "pending", !.bytes_transferred = 0]
        ELSE jobs[j]]

\* the recovery without the condition on the intent
Recovered_AllIntents(i) ==
    [j \in JobIds |->
        IF jobs[j].status = "transferring"
        THEN [jobs[j] EXCEPT !.status = "pending", !.bytes_transferred = 0]
        ELSE jobs[j]]

\* the recovery that also takes back the jobs waiting for review
Recovered_AlsoReview(i) ==
    [j \in JobIds |->
        IF jobs[j].intent = i /\ jobs[j].status \in {"transferring", "needs_review"}
        THEN [jobs[j] EXCEPT !.status = "pending", !.bytes_transferred = 0]
        ELSE jobs[j]]

\* the recovery that charges the interrupted copy as an attempt
Recovered_CountsAttempt(i) ==
    [j \in JobIds |->
        IF jobs[j].intent = i /\ jobs[j].status = "transferring"
        THEN [jobs[j] EXCEPT !.status = "pending", !.bytes_transferred = 0,
                             !.attempts = @ + 1]
        ELSE jobs[j]]

\* the recovery without the reset of bytes_transferred
Recovered_KeepsBytes(i) ==
    [j \in JobIds |->
        IF jobs[j].intent = i /\ jobs[j].status = "transferring"
        THEN [jobs[j] EXCEPT !.status = "pending"]
        ELSE jobs[j]]

\* UPDATE transfer_job SET status = 'pending', bytes_transferred = 0
\*   WHERE intent = $intent_id AND status = 'transferring'
Recovered(i) ==
    [j \in JobIds |->
        IF jobs[j].intent = i /\ jobs[j].status = "transferring"
        THEN [jobs[j] EXCEPT !.status = "pending", !.bytes_transferred = 0]
        ELSE jobs[j]]

\* the recovery step, then Semaphore::new(MAX_CONCURRENCY)
RunRecover(r) ==
    /\ runs[r].pc = "recover"
    /\ \E ok \in DbOutcomes :
          /\ budget' = SpendDb(ok)
          /\ IF ok
             THEN /\ jobs' = Recovered(IntentOf(r))
                  /\ runs' = [runs EXCEPT ![r].pc = "query",
                                          ![r].permits = MAX_CONCURRENCY,
                                          ![r].recovered = CountStatus(IntentOf(r), "transferring")]
             ELSE /\ RunFail(r, "DbError")
                  /\ UNCHANGED jobs
    /\ UNCHANGED <<fs, intents, reviews, scans, tasks, resolves>>

\* the head of the dispatch loop: the batch query
RunQuery(r) ==
    /\ runs[r].pc = "query"
    /\ \E ok \in DbOutcomes :
          /\ budget' = SpendDb(ok)
          /\ IF ok
             THEN LET job_ids == get_pending_jobs(IntentOf(r))
                  IN runs' = [runs EXCEPT ![r].batch = job_ids,
                                          ![r].next = 1,
                                          ![r].spawned = IF job_ids = <<>> THEN <<>> ELSE @,
                                          ![r].pc = IF job_ids = <<>> THEN "count" ELSE "dispatch"]
             ELSE RunFail(r, "DbError")
    /\ UNCHANGED <<fs, intents, jobs, reviews, scans, tasks, resolves>>

\* tokio::spawn: a new task, told apart from the live tasks of the same run and job
NewTask(r, j) ==
    [run |-> r, job |-> j, n |-> Cardinality({t \in tasks : t.run = r /\ t.job = j}) + 1,
     pc |-> "load", intent |-> NONE, attempts |-> 0,
     max_attempts |-> 0, copied |-> 0, corrupt |-> FALSE, res |-> NoResult, ret |-> NONE]

\* the dispatch without the wait for a permit
Acquire_NoWait(r) == TRUE

\* acquire_owned().await: a permit is free
Acquire(r) == runs[r].permits > 0

\* one turn of `for job_id in job_ids`: take a permit, spawn the copy task
RunDispatch(r) ==
    /\ runs[r].pc = "dispatch"
    /\ Acquire(r)
    /\ LET j == runs[r].batch[runs[r].next]
       IN /\ tasks' = tasks \cup {NewTask(r, j)}
          /\ runs' = [runs EXCEPT ![r].permits = @ - 1,
                                  ![r].next = @ + 1,
                                  ![r].spawned = CountOneMore(@, j),
                                  ![r].pc = IF runs[r].next = Len(runs[r].batch)
                                            THEN "await" ELSE "dispatch"]
    /\ UNCHANGED <<fs, intents, jobs, reviews, scans, resolves, budget>>

\* the loop going round without awaiting the handles
BatchJoined_NoWait(r) == TRUE

\* `for handle in handles { let _ = handle.await; }` has passed every handle
BatchJoined(r) == \A t \in TasksOf(r) : t.pc = "done"

\* the batch is awaited and an error of a task ends the run
RunAwait_FailsOnError(r) ==
    /\ runs[r].pc = "await"
    /\ BatchJoined(r)
    /\ tasks' = tasks \ {t \in TasksOf(r) : t.pc = "done"}
    /\ runs' = IF \E t \in TasksOf(r) : t.ret # "Ok"
               THEN [runs EXCEPT ![r].pc = "error", ![r].ret = "DbError"]
               ELSE [runs EXCEPT ![r].pc = "query", ![r].batch = <<>>, ![r].next = 1]
    /\ UNCHANGED <<fs, intents, jobs, reviews, scans, resolves, budget>>

\* the batch is awaited, its results are dropped, the loop goes round
RunAwait(r) ==
    /\ runs[r].pc = "await"
    /\ BatchJoined(r)
    /\ tasks' = tasks \ {t \in TasksOf(r) : t.pc = "done"}
    /\ runs' = [runs EXCEPT ![r].pc = "query", ![r].batch = <<>>, ![r].next = 1]
    /\ UNCHANGED <<fs, intents, jobs, reviews, scans, resolves, budget>>

\* after the loop: compute_result
RunCount(r) ==
    /\ runs[r].pc = "count"
    /\ \E ok \in DbOutcomes :
          /\ budget' = SpendDb(ok)
          /\ IF ok
             THEN runs' = [runs EXCEPT ![r].pc = "finalize",
                                       ![r].result = compute_result(IntentOf(r))]
             ELSE RunFail(r, "DbError")
    /\ UNCHANGED <<fs, intents, jobs, reviews, scans, tasks, resolves>>

\* the finalization that also writes completed_bytes
Finalized_WithBytes(intent, result) ==
    [intent EXCEPT !.status = FinalStatus(result),
                   !.completed_files = result.completed,
                   !.completed_bytes = IF result.completed = intent.total_files
                                       THEN intent.total_bytes ELSE @]

\* the finalization that writes the status and leaves completed_files
Finalized_StatusOnly(intent, result) ==
    [intent EXCEPT !.status = FinalStatus(result)]

\* the record finalize_intent leaves
Finalized(intent, result) ==
    [intent EXCEPT !.status = FinalStatus(result),
                   !.completed_files = result.completed]

\* finalize_intent, then Ok(result)
RunFinalize(r) ==
    /\ runs[r].pc = "finalize"
    /\ \E ok \in DbOutcomes :
          /\ budget' = SpendDb(ok)
          /\ IF ok
             THEN /\ intents' = [intents EXCEPT ![IntentOf(r)] = Finalized(@, runs[r].result)]
                  /\ runs' = [runs EXCEPT ![r].pc = "done", ![r].ret = "Ok"]
             ELSE /\ RunFail(r, "DbError")
                  /\ UNCHANGED intents
    /\ UNCHANGED <<fs, jobs, reviews, scans, tasks, resolves>>

(***************************************************************************)
(* Review resolution (ui/review_queue.rs).                                 *)
(***************************************************************************)
\* a card whose buttons stay enabled, also for an item already resolved
Resolvable_Always(v) == v \in ReviewIds

\* the cards the queue shows: fetch_review_items selects the unresolved items,
\* and a card whose button was clicked is disabled
Resolvable(v) ==
    /\ reviews[v].resolution = NONE
    /\ ~\E x \in resolves : x.item = v

\* a button of the card of item v is clicked; resolve_item marks the item
ResolveItem(v, opt) ==
    /\ Resolvable(v)
    /\ \E n \in 1..Len(reviews[v].options) : reviews[v].options[n] = opt
    /\ opt \in {"retry", "rescan"} => budget.retries > 0
    /\ \E ok \in DbOutcomes :
          /\ budget' = [SpendDb(ok) EXCEPT !.retries =
                           IF opt \in {"retry", "rescan"} THEN @ - 1 ELSE @]
          /\ reviews' = IF ok THEN [reviews EXCEPT ![v].resolution = opt,
                                                   ![v].resolved_at = "now"]
                              ELSE reviews
          /\ resolves' = resolves \cup
                 {[item |-> v, job |-> reviews[v].job, resolution |-> opt,
                   pc |-> IF ok THEN "job" ELSE "done"]}
    /\ UNCHANGED <<fs, intents, jobs, scans, runs, tasks>>

\* the write of a retry that leaves the attempts as they are
Resolved_KeepsAttempts(job, resolution) ==
    CASE resolution \in {"retry", "rescan"} -> [job EXCEPT !.status = "pending"]
      [] resolution = "accept" -> [job EXCEPT !.status = "complete"]
      [] resolution = "skip" -> [job EXCEPT !.status = "skipped"]
      [] OTHER -> job

\* what resolve_item writes on the job for a resolution
Resolved(job, resolution) ==
    CASE resolution \in {"retry", "rescan"} ->
             [job EXCEPT !.status = "pending", !.attempts = 0]
      [] resolution = "accept" -> [job EXCEPT !.status = "complete"]
      [] resolution = "skip" -> [job EXCEPT !.status = "skipped"]
      [] OTHER -> job

\* resolve_item acts on the job
ResolveJob(x) ==
    /\ x.pc = "job"
    /\ \E ok \in DbOutcomes :
          /\ budget' = SpendDb(ok)
          /\ jobs' = IF ok THEN [jobs EXCEPT ![x.job] = Resolved(@, x.resolution)] ELSE jobs
    /\ resolves' = (resolves \ {x}) \cup {[x EXCEPT !.pc = "done"]}
    /\ UNCHANGED <<fs, intents, reviews, scans, runs, tasks>>

(***************************************************************************)
(* Callers and specifications.                                             *)
(***************************************************************************)
File(size) == [kind |-> "file", size |-> size]

Symlink == [kind |-> "symlink", size |-> 0]

Dir == [kind |-> "dir", size |-> 0]

\* the record CREATE intent leaves (ui/new_intent.rs)
NewIntent ==
    [status |-> "idle", total_files |-> 0, total_bytes |-> 0,
     completed_files |-> 0, completed_bytes |-> 0]

\* the state after the intents of `world` were created, with the given run
\* slots and nothing started
InitWith(world, slots, faults, retries) ==
    /\ fs = world
    /\ intents = [i \in DOMAIN world |-> NewIntent]
    /\ jobs = <<>>
    /\ reviews = <<>>
    /\ scans = [i \in DOMAIN world |-> ScanIdle]
    /\ runs = [r \in slots |-> RunIdle]
    /\ tasks = {}
    /\ resolves = {}
    /\ budget = [faults |-> faults, retries |-> retries]

\* IntentRow::start: the Start button shows on an idle intent; scan_intent and
\* run_intent of one intent do not overlap
CallScan(i) ==
    /\ intents[i].status = "idle"
    /\ \A r \in RunIds : IntentOf(r) = i => ~RunActive(r)
    /\ ScanInvoke(i)

\* the reference design: at most one run_intent per intent at a time
CallRun(r) ==
    /\ ~ScanActive(IntentOf(r))
    /\ \A q \in RunIds : IntentOf(q) = IntentOf(r) => ~RunActive(q)
    /\ RunInvoke(r)

Resolutions == {"retry", "rescan", "skip", "accept"}

World1 ==
    "A" :> [source |-> "dir",
            tree |-> <<Dir, File(BigSize), Symlink>>,
            dests |-> <<"ok">>]

Init == InitWith(World1, {<<"A", 1>>}, MaxFaults, MaxRetries)

Next ==
    \/ \E i \in IntentIds : CallScan(i)
    \/ \E i \in IntentIds : ScanStart(i)
    \/ \E i \in IntentIds : ScanWalk(i)
    \/ \E i \in IntentIds : ScanCreate(i)
    \/ \E i \in IntentIds : ScanFinal(i)
    \/ \E r \in RunIds : CallRun(r)
    \/ \E r \in RunIds : RunRecover(r)
    \/ \E r \in RunIds : RunQuery(r)
    \/ \E r \in RunIds : RunDispatch(r)
    \/ \E r \in RunIds : RunAwait(r)
    \/ \E r \in RunIds : RunCount(r)
    \/ \E r \in RunIds : RunFinalize(r)
    \/ \E t \in tasks : CopyLoad(t)
    \/ \E t \in tasks : CopyClaim(t)
    \/ \E t \in tasks : CopyPipeline(t, FsFaults)
    \/ \E t \in tasks : CopyPanic(t)
    \/ \E t \in tasks : CopyFinal(t)
    \/ \E t \in tasks : CopyReview(t)
    \/ \E v \in ReviewIds, opt \in Resolutions : ResolveItem(v, opt)
    \/ \E x \in resolves : ResolveJob(x)

Spec == Init /\ [][Next]_vars

(***************************************************************************)
(* Two intents started side by side, the first with one job more than the  *)
(* scheduler has permits; the Job Store works and nothing panics.          *)
(***************************************************************************)
RECURSIVE Files(_, _)
Files(n, size) == IF n = 0 THEN <<>> ELSE <<File(size)>> \o Files(n - 1, size)

WorldCap ==
    ("A" :> [source |-> "dir",
             tree |-> <<Dir>> \o Files(MAX_CONCURRENCY + 1, SmallSize),
             dests |-> <<"ok">>])
    @@
    ("B" :> [source |-> "dir",
             tree |-> <<Dir, File(SmallSize)>>,
             dests |-> <<"ok">>])

InitCap == InitWith(WorldCap, {<<"A", 1>>, <<"B", 1>>}, 0, 0)

\* what the filesystem does to a copy in the dispatch scenario: only the first
\* file of intent A can arrive damaged
CapFaults(t) ==
    IF jobs[t.job].source_path = JoinPath(SourceRoot("A"), 2)
    THEN {"none", "corrupt"}
    ELSE {"none"}

NextCap ==
    \/ \E i \in IntentIds : CallScan(i)
    \/ \E i \in IntentIds : ScanStart(i)
    \/ \E i \in IntentIds : ScanWalk(i)
    \/ \E i \in IntentIds : ScanCreate(i)
    \/ \E i \in IntentIds : ScanFinal(i)
    \/ \E r \in RunIds : CallRun(r)
    \/ \E r \in RunIds : RunRecover(r)
    \/ \E r \in RunIds : RunQuery(r)
    \/ \E r \in RunIds : RunDispatch(r)
    \/ \E r \in RunIds : RunAwait(r)
    \/ \E r \in RunIds : RunCount(r)
    \/ \E r \in RunIds : RunFinalize(r)
    \/ \E t \in tasks : CopyLoad(t)
    \/ \E t \in tasks : CopyClaim(t)
    \/ \E t \in tasks : CopyPipeline(t, CapFaults(t))
    \/ \E t \in tasks : CopyFinal(t)
    \/ \E t \in tasks : CopyReview(t)

SpecCap == InitCap /\ [][NextCap]_vars

(***************************************************************************)
(* One intent with one job more than the scheduler has permits, in an      *)
(* environment that can fail a Job Store operation or panic a pipeline.    *)
(* The runtime polls every spawned task and every call until it returns.   *)
(***************************************************************************)
WorldBatch ==
    "A" :> [source |-> "dir",
            tree |-> <<Dir>> \o Files(MAX_CONCURRENCY + 1, SmallSize),
            dests |-> <<"ok">>]

InitBatch == InitWith(WorldBatch, {<<"A", 1>>}, MaxFaults, 0)

\* a step of scan_intent after its call
ScanStep(i) == ScanStart(i) \/ ScanWalk(i) \/ ScanCreate(i) \/ ScanFinal(i)

\* a step of run_intent after its call
RunStep(r) ==
    \/ RunRecover(r)
    \/ RunQuery(r)
    \/ RunDispatch(r)
    \/ RunAwait(r)
    \/ RunCount(r)
    \/ RunFinalize(r)

\* a step of copy_job that the task takes when it is polled
CopyStep(t, faults) ==
    \/ CopyLoad(t)
    \/ CopyClaim(t)
    \/ CopyPipeline(t, faults)
    \/ CopyFinal(t)
    \/ CopyReview(t)

NextBatch ==
    \/ \E i \in IntentIds : CallScan(i)
    \/ \E i \in IntentIds : ScanStart(i)
    \/ \E i \in IntentIds : ScanWalk(i)
    \/ \E i \in IntentIds : ScanCreate(i)
    \/ \E i \in IntentIds : ScanFinal(i)
    \/ \E r \in RunIds : CallRun(r)
    \/ \E r \in RunIds : RunRecover(r)
    \/ \E r \in RunIds : RunQuery(r)
    \/ \E r \in RunIds : RunDispatch(r)
    \/ \E r \in RunIds : RunAwait(r)
    \/ \E r \in RunIds : RunCount(r)
    \/ \E r \in RunIds : RunFinalize(r)
    \/ \E t \in tasks : CopyLoad(t)
    \/ \E t \in tasks : CopyClaim(t)
    \/ \E t \in tasks : CopyPipeline(t, CapFaults(t))
    \/ \E t \in tasks : CopyPanic(t)
    \/ \E t \in tasks : CopyFinal(t)
    \/ \E t \in tasks : CopyReview(t)

\* tokio drives every spawned task and the awaited calls
FairBatch ==
    /\ WF_vars(\E i \in IntentIds : ScanStep(i))
    /\ WF_vars(\E r \in RunIds : RunStep(r))
    /\ WF_vars(\E t \in tasks : CopyStep(t, CapFaults(t)))

SpecBatch == InitBatch /\ [][NextBatch]_vars /\ FairBatch

(***************************************************************************)
(* One intent over the tree of the scanner's tests (root.txt, subdir/mid.txt*)
(* and subdir/deep/bottom.txt, with a symlink) and two destinations; the   *)
(* Job Store works, one copy can arrive damaged and go to review.          *)
(***************************************************************************)
WorldScan ==
    "A" :> [source |-> "dir",
            tree |-> <<File(5), Dir, File(2), Dir, File(10), Symlink>>,
            dests |-> <<"ok", "ok">>]

InitScan == InitWith(WorldScan, {<<"A", 1>>}, 0, 0)

\* what the filesystem does to a copy in the scan scenario: only root.txt on
\* its way to the first destination can arrive damaged
ScanFaults(t) ==
    IF jobs[t.job].dest_path = JoinPath(DestRoot("A", 1), 1)
    THEN {"none", "corrupt"}
    ELSE {"none"}

NextScan ==
    \/ \E i \in IntentIds : CallScan(i)
    \/ \E i \in IntentIds : ScanStart(i)
    \/ \E i \in IntentIds : ScanWalk(i)
    \/ \E i \in IntentIds : ScanCreate(i)
    \/ \E i \in IntentIds : ScanFinal(i)
    \/ \E r \in RunIds : CallRun(r)
    \/ \E r \in RunIds : RunRecover(r)
    \/ \E r \in RunIds : RunQuery(r)
    \/ \E r \in RunIds : RunDispatch(r)
    \/ \E r \in RunIds : RunAwait(r)
    \/ \E r \in RunIds : RunCount(r)
    \/ \E r \in RunIds : RunFinalize(r)
    \/ \E t \in tasks : CopyLoad(t)
    \/ \E t \in tasks : CopyClaim(t)
    \/ \E t \in tasks : CopyPipeline(t, ScanFaults(t))
    \/ \E t \in tasks : CopyFinal(t)
    \/ \E t \in tasks : CopyReview(t)
    \/ \E v \in ReviewIds, opt \in Resolutions : ResolveItem(v, opt)
    \/ \E x \in resolves : ResolveJob(x)

SpecScan == InitScan /\ [][NextScan]_vars

(***************************************************************************)
(* Three intents scanned side by side over source trees with symlinks,     *)
(* unreadable entries and no file at all; the Job Store can fail.          *)
(***************************************************************************)
\* an entry WalkDir yields as Err
WalkError == [kind |-> "walk_error", size |-> 0]

\* an entry whose metadata() fails
NoMetadata == [kind |-> "no_metadata", size |-> 0]

WorldWalk ==
    ("A" :> [source |-> "dir",
             tree |-> <<File(5), Symlink, Dir, File(2), WalkError, NoMetadata>>,
             dests |-> <<"ok", "ok">>])
    @@
    ("B" :> [source |-> "dir",
             tree |-> <<>>,
             dests |-> <<"ok">>])
    @@
    ("C" :> [source |-> "dir",
             tree |-> <<Dir, Symlink, WalkError>>,
             dests |-> <<"ok">>])

InitWalk == InitWith(WorldWalk, {}, MaxFaults, 0)

NextWalk ==
    \/ \E i \in IntentIds : CallScan(i)
    \/ \E i \in IntentIds : ScanStart(i)
    \/ \E i \in IntentIds : ScanWalk(i)
    \/ \E i \in IntentIds : ScanCreate(i)
    \/ \E i \in IntentIds : ScanFinal(i)

SpecWalk == InitWalk /\ [][NextWalk]_vars

(***************************************************************************)
(* One intent with one file and two callers of run_intent that do not wait *)
(* for each other: run_intent itself takes no lock on the intent. The Job  *)
(* Store and the filesystem work.                                          *)
(***************************************************************************)
WorldRace ==
    "A" :> [source |-> "dir",
            tree |-> <<Dir, File(SmallSize)>>,
            dests |-> <<"ok">>]

InitRace == InitWith(WorldRace, {<<"A", 1>>, <<"A", 2>>}, 0, 0)

\* run_intent is called while another call on the same intent may be running
CallRunAnyTime(r) ==
    /\ ~ScanActive(IntentOf(r))
    /\ RunInvoke(r)

NextRace ==
    \/ \E i \in IntentIds : CallScan(i)
    \/ \E i \in IntentIds : ScanStart(i)
    \/ \E i \in IntentIds : ScanWalk(i)
    \/ \E i \in IntentIds : ScanCreate(i)
    \/ \E i \in IntentIds : ScanFinal(i)
    \/ \E r \in RunIds : CallRunAnyTime(r)
    \/ \E r \in RunIds : RunRecover(r)
    \/ \E r \in RunIds : RunQuery(r)
    \/ \E r \in RunIds : RunDispatch(r)
    \/ \E r \in RunIds : RunAwait(r)
    \/ \E r \in RunIds : RunCount(r)
    \/ \E r \in RunIds : RunFinalize(r)
    \/ \E t \in tasks : CopyLoad(t)
    \/ \E t \in tasks : CopyClaim(t)
    \/ \E t \in tasks : CopyPipeline(t, {"none"})
    \/ \E t \in tasks : CopyFinal(t)

SpecRace == InitRace /\ [][NextRace]_vars

(***************************************************************************)
(* The two callers of run_intent again, on a file large enough for a       *)
(* progress update.                                                        *)
(***************************************************************************)
WorldReset ==
    "A" :> [source |-> "dir",
            tree |-> <<Dir, File(BigSize)>>,
            dests |-> <<"ok">>]

InitReset == InitWith(WorldReset, {<<"A", 1>>, <<"A", 2>>}, 0, 0)

SpecReset == InitReset /\ [][NextRace]_vars

(***************************************************************************)
(* scan_intent called again on an intent it has scanned: the function      *)
(* itself reads neither the status of the intent nor the jobs in the store. *)
(* The source trees do not change; the Job Store can fail.                 *)
(***************************************************************************)
InitRescan == InitWith(WorldWalk, {}, MaxFaults, 0)

\* scan_intent called whatever the status of the intent is
CallScanAgain(i) ==
    /\ Cardinality(JobsOf(i)) + Len(walk_source(fs[i].tree).entries) * Len(fs[i].dests)
          <= MaxScans * Len(walk_source(fs[i].tree).entries) * Len(fs[i].dests)
    /\ ScanInvoke(i)

NextRescan ==
    \/ \E i \in IntentIds : CallScanAgain(i)
    \/ \E i \in IntentIds : ScanStart(i)
    \/ \E i \in IntentIds : ScanWalk(i)
    \/ \E i \in IntentIds : ScanCreate(i)
    \/ \E i \in IntentIds : ScanFinal(i)

SpecRescan == InitRescan /\ [][NextRescan]_vars

(***************************************************************************)
(* Scans that return an error: intents whose source or destination         *)
(* location is not in the store, whose source path is missing or is a      *)
(* file, and an intent id that is not in the store, next to one intent     *)
(* that scans well. The Job Store can fail.                                *)
(***************************************************************************)
WorldErrors ==
    ("A" :> [source |-> "no_location", tree |-> <<File(SmallSize)>>, dests |-> <<"ok">>])
    @@ ("B" :> [source |-> "missing", tree |-> <<>>, dests |-> <<"ok">>])
    @@ ("C" :> [source |-> "file", tree |-> <<>>, dests |-> <<"ok">>])
    @@ ("D" :> [source |-> "dir", tree |-> <<File(SmallSize), File(SmallSize)>>,
                dests |-> <<"ok", "no_location">>])
    @@ ("E" :> [source |-> "dir", tree |-> <<File(SmallSize)>>, dests |-> <<"ok">>])

\* intent ids that name no record of the store
MissingIntents == {"X"}

InitErrors ==
    /\ fs = WorldErrors
    /\ intents = [i \in DOMAIN WorldErrors |-> NewIntent]
    /\ jobs = <<>>
    /\ reviews = <<>>
    /\ scans = [i \in DOMAIN WorldErrors \cup MissingIntents |-> ScanIdle]
    /\ runs = <<>>
    /\ tasks = {}
    /\ resolves = {}
    /\ budget = [faults |-> MaxFaults, retries |-> 0]

NextErrors ==
    \/ \E i \in IntentIds : CallScan(i)
    \/ \E i \in MissingIntents : ScanNotFound(i)
    \/ \E i \in IntentIds : ScanStart(i)
    \/ \E i \in IntentIds : ScanWalk(i)
    \/ \E i \in IntentIds : ScanCreate(i)
    \/ \E i \in IntentIds : ScanFinal(i)

SpecErrors == InitErrors /\ [][NextErrors]_vars

(***************************************************************************)
(* The callers of Spec on a file of two progress intervals: a copy writes  *)
(* bytes_transferred twice before it ends.                                 *)
(***************************************************************************)
WorldProgress ==
    "A" :> [source |-> "dir",
            tree |-> <<File(2 * BigSize)>>,
            dests |-> <<"ok">>]

InitProgress == InitWith(WorldProgress, {<<"A", 1>>}, MaxFaults, MaxRetries)

SpecProgress == InitProgress /\ [][Next]_vars

(***************************************************************************)
(* Properties.                                                             *)
(***************************************************************************)
\* u is task t one step later
Same(t, u) == u.run = t.run /\ u.job = t.job /\ u.n = t.n

\* the step ends the copy_job call of task t
Finishes(t) ==
    /\ t \in tasks
    /\ t.pc # "done"
    /\ \E u \in tasks' : Same(t, u) /\ u.pc = "done"

\* the step is the failure write of task t, and the write went through
WritesFailure(t) ==
    /\ t \in tasks
    /\ t.pc = "final"
    /\ ~t.res.ok
    /\ \E u \in tasks' : Same(t, u) /\ (u.pc = "review" \/ (u.pc = "done" /\ u.ret # "DbError"))

PipelineErrors == {"SourceNotFound", "PermissionDenied", "DiskFull", "HashMismatch", "IoError"}

\* C1: when the pipeline of copy_job fails on a job stored with attempts = a and
\* max_attempts = m, the failure write stores attempts = a + 1, and the status
\* pending exactly when the error is IoError and a + 1 < m, needs_review in
\* every other case
C1_FailureWrite ==
    [][\A t \in tasks :
          WritesFailure(t) =>
              LET a == jobs[t.job].attempts
                  m == jobs[t.job].max_attempts
              IN /\ t.res.err \in PipelineErrors
                 /\ jobs'[t.job].attempts = a + 1
                 /\ jobs'[t.job].status =
                        IF t.res.err = "IoError" /\ a + 1 < m THEN "pending" ELSE "needs_review"]_vars

\* an IoError on the last attempt of the budget went to review
C1_Witness ==
    \E j \in JobIds :
        /\ jobs[j].status = "needs_review"
        /\ jobs[j].last_error = "IoError"
        /\ jobs[j].attempts = jobs[j].max_attempts

\* C2: run_intent starts with the recovery step on every invocation; right after
\* it no job of the intent is transferring, every job of the intent that was
\* transferring is pending with bytes_transferred = 0, and no copy task of the
\* run has been spawned
C2_Recovery ==
    [][\A r \in RunIds :
          /\ (~RunActive(r) /\ runs'[r].pc # runs[r].pc) => runs'[r].pc = "recover"
          /\ (runs'[r].pc = "query" /\ runs[r].pc # "query") => runs[r].pc \in {"recover", "await"}
          /\ (runs[r].pc = "recover" /\ runs'[r].pc = "query") =>
                /\ {t \in tasks' : t.run = r} = {}
                /\ \A j \in JobIds :
                      jobs[j].intent = IntentOf(r) =>
                          /\ jobs'[j].status # "transferring"
                          /\ jobs[j].status = "transferring" =>
                                /\ jobs'[j].status = "pending"
                                /\ jobs'[j].bytes_transferred = 0]_vars

\* a run has just recovered a job that an earlier run left transferring
C2_Witness ==
    \E r \in RunIds :
        /\ runs[r].pc = "query"
        /\ runs[r].recovered > 0
        /\ TasksOf(r) = {}
        /\ \E j \in JobsOf(IntentOf(r)) :
              jobs[j].status = "pending" /\ jobs[j].bytes_transferred = 0

\* the review items the step creates
Created == {v \in DOMAIN reviews' : v \notin ReviewIds}

\* C3: a copy_job call that leaves its job in needs_review creates exactly one
\* review item, which references the job and its intent and carries the error
\* kind, the message, the paths and the options of the kind; a call that leaves
\* the job complete or pending creates none
C3_OneItemPerEscalation ==
    [][/\ \A t \in tasks :
             Finishes(t) =>
                 /\ jobs'[t.job].status = "needs_review" =>
                        /\ Cardinality(Created) = 1
                        /\ \A v \in Created :
                              /\ reviews'[v].job = t.job
                              /\ reviews'[v].intent = jobs[t.job].intent
                              /\ reviews'[v].error_kind = jobs'[t.job].error_kind
                              /\ reviews'[v].error_message = jobs'[t.job].last_error
                              /\ reviews'[v].source_path = jobs[t.job].source_path
                              /\ reviews'[v].dest_path = jobs[t.job].dest_path
                              /\ reviews'[v].options = resolution_options(jobs'[t.job].error_kind)
                              /\ reviews'[v].resolution = NONE
                 /\ jobs'[t.job].status \in {"complete", "pending"} => Created = {}
       /\ Created # {} => \E t \in tasks : Finishes(t)]_vars

HashesMatch(j) ==
    /\ jobs[j].source_hash # NoHash
    /\ jobs[j].dest_hash # NoHash
    /\ jobs[j].source_hash = jobs[j].dest_hash

\* C5 as stated: a complete job has both hashes set and equal, whichever way it
\* became complete
C5_Original == \A j \in JobIds : jobs[j].status = "complete" => HashesMatch(j)

\* C5, amended: a complete job has both hashes set and equal, unless a review
\* item of the job was resolved with accept
C5_CompleteHashes ==
    \A j \in JobIds :
        jobs[j].status = "complete" =>
            \/ HashesMatch(j)
            \/ \E v \in ReviewIds : reviews[v].job = j /\ reviews[v].resolution = "accept"

\* a job completed by a copy that succeeded after a failed attempt
C5_Witness ==
    \E j \in JobIds :
        /\ jobs[j].status = "complete"
        /\ jobs[j].attempts > 0
        /\ jobs[j].bytes_transferred = jobs[j].size
        /\ HashesMatch(j)
        /\ jobs[j].source_hash = Hash(Content(j))

\* C6: the failure write of a copy raises attempts by exactly 1; attempts
\* changes in no other step of scanner, copier or scheduler (a retry or rescan
\* resolution sets it to 0); and a job that is not in needs_review has
\* attempts <= max_attempts
C6_Attempts ==
    /\ [][/\ \A t \in tasks :
                WritesFailure(t) => jobs'[t.job].attempts = jobs[t.job].attempts + 1
          /\ \A j \in JobIds :
                jobs'[j].attempts # jobs[j].attempts =>
                    \/ \E t \in tasks : t.job = j /\ WritesFailure(t)
                    \/ /\ jobs'[j].attempts = 0
                       /\ \E x \in resolves :
                             /\ x.job = j
                             /\ x.pc = "job"
                             /\ x.resolution \in {"retry", "rescan"}
                             /\ x \notin resolves']_vars
    /\ [](\A j \in JobIds :
             /\ jobs[j].attempts >= 0
             /\ jobs[j].status # "needs_review" => jobs[j].attempts <= jobs[j].max_attempts)

\* after a retry resolution set attempts back to 0, a failed attempt of the job
\* raised it to 1
C6_Witness ==
    \E j \in JobIds, v \in ReviewIds :
        /\ reviews[v].job = j
        /\ reviews[v].resolution = "retry"
        /\ jobs[j].status = "pending"
        /\ jobs[j].attempts = 1
        /\ jobs[j].last_error = "IoError"

\* C7: when run_intent returns Ok, every job of the intent is complete, failed
\* or needs_review
C7_SettledOnReturn ==
    [][\A r \in RunIds :
          (runs[r].pc = "finalize" /\ runs'[r].pc = "done") =>
              \A j \in JobIds :
                  jobs[j].intent = IntentOf(r) =>
                      jobs'[j].status \in {"complete", "failed", "needs_review"}]_vars

\* the jobs of intent i with the given status, after the step
CountAfter(i, status) ==
    Cardinality({j \in DOMAIN jobs' : jobs'[j].intent = i /\ jobs'[j].status = status})

\* C8: after the dispatch loop run_intent counts the complete, needs_review and
\* failed jobs of the intent, returns these counts, and writes on the intent
\* completed_files = the complete count and status = needs_review if at least
\* one job is in needs_review, complete otherwise
C8_Finalization ==
    [][\A r \in RunIds :
          /\ (runs'[r].pc = "count" /\ runs[r].pc # "count") =>
                runs[r].pc = "query" /\ get_pending_jobs(IntentOf(r)) = <<>>
          /\ (runs[r].pc = "count" /\ runs'[r].pc = "finalize") =>
                /\ runs'[r].result.completed = CountAfter(IntentOf(r), "complete")
                /\ runs'[r].result.needs_review = CountAfter(IntentOf(r), "needs_review")
                /\ runs'[r].result.failed = CountAfter(IntentOf(r), "failed")
          /\ (runs[r].pc = "finalize" /\ runs'[r].pc = "done" /\ runs'[r].ret = "Ok") =>
                /\ runs'[r].result = runs[r].result
                /\ intents'[IntentOf(r)].completed_files = runs[r].result.completed
                /\ intents'[IntentOf(r)].status =
                       IF runs[r].result.needs_review >= 1 THEN "needs_review" ELSE "complete"]_vars

\* a run returned counts with both complete and needs_review jobs and left them
\* on the intent
C8_Witness ==
    \E r \in RunIds :
        /\ runs[r].pc = "done"
        /\ runs[r].result.completed >= 2
        /\ runs[r].result.needs_review >= 1
        /\ intents[IntentOf(r)].completed_files = runs[r].result.completed
        /\ intents[IntentOf(r)].status = "needs_review"

\* the copy tasks of run r that hold a permit
InProgress(r) == {t \in TasksOf(r) : Running(t)}

\* C9: at most MAX_CONCURRENCY copy_job calls started by one run_intent call are
\* in progress; every call has its own semaphore, whose permits are taken only
\* by its own tasks
C9_PermitCap ==
    \A r \in RunIds :
        /\ Cardinality(InProgress(r)) <= MAX_CONCURRENCY
        /\ runs[r].pc \in {"query", "dispatch", "await", "count", "finalize"} =>
              runs[r].permits + Cardinality(InProgress(r)) = MAX_CONCURRENCY

\* one run has all its permits out while the run of another intent has a copy
\* in progress as well
C9_Witness ==
    \E r, q \in RunIds :
        /\ r # q
        /\ Cardinality(InProgress(r)) = MAX_CONCURRENCY
        /\ runs[r].pc = "dispatch"
        /\ InProgress(q) # {}

\* C10: with one run_intent per intent at a time, a job has at most one copy
\* task in progress: a batch holds a job once, the job is transferring while
\* the body of its copy runs, and the batch query runs with no task of the run
\* left
C10_OneTaskPerJob ==
    /\ \A j \in JobIds : Cardinality({t \in tasks : t.job = j /\ Running(t)}) <= 1
    /\ \A r \in RunIds :
          /\ \A m, n \in 1..Len(runs[r].batch) :
                runs[r].batch[m] = runs[r].batch[n] => m = n
          /\ runs[r].pc = "query" => TasksOf(r) = {}
    /\ \A t \in tasks :
          t.pc \in {"pipe", "final"} => jobs[t.job].status = "transferring"

\* several jobs of one batch are inside their copy body at the same time
C10_Witness ==
    \E r \in RunIds :
        /\ Len(runs[r].batch) > MAX_CONCURRENCY
        /\ Cardinality({t \in TasksOf(r) : t.pc = "pipe"}) >= 2
        /\ \E t \in TasksOf(r) : t.pc = "done"

\* the run slot of intent A
RunA == <<"A", 1>>

\* the dispatcher of RunA waits in acquire_owned
WaitsForPermit == runs[RunA].pc = "dispatch" /\ runs[RunA].permits = 0

\* C11: a copy task that ends gives its permit back, whatever it returns (Ok, an
\* error, or the IoError of a panicked pipeline); the wait for a permit and the
\* wait for the batch end; and once the batch is awaited all MAX_CONCURRENCY
\* permits are back
C11_PermitsReturn ==
    /\ [][\A t \in tasks :
             Finishes(t) => runs'[t.run].permits = runs[t.run].permits + 1]_vars
    /\ [](\A r \in RunIds :
             /\ runs[r].pc \in {"query", "count", "finalize"} =>
                   runs[r].permits = MAX_CONCURRENCY
             /\ (runs[r].pc = "await" /\ BatchJoined(r)) =>
                   runs[r].permits = MAX_CONCURRENCY)
    /\ (WaitsForPermit ~> ~WaitsForPermit)
    /\ (runs[RunA].pc = "await" ~> runs[RunA].pc = "query")

\* a batch of more jobs than permits has ended with one task Ok, one with a
\* verification error and one whose pipeline panicked, and every permit is back
C11_Witness ==
    /\ runs[RunA].pc = "await"
    /\ Len(runs[RunA].batch) > MAX_CONCURRENCY
    /\ BatchJoined(RunA)
    /\ runs[RunA].permits = MAX_CONCURRENCY
    /\ \E t \in TasksOf(RunA) : t.ret = "Ok"
    /\ \E t \in TasksOf(RunA) : t.ret = "HashMismatch"
    /\ \E t \in TasksOf(RunA) : t.ret = "IoError" /\ jobs[t.job].status = "transferring"

\* the pipeline of task t panicked: copy_job returned the join error
Panicked(t) == t.pc = "done" /\ t.ret = "IoError" /\ t.res = NoResult

\* job j is transferring and no copy task works on it
Orphaned(j) ==
    /\ jobs[j].status = "transferring"
    /\ ~\E t \in tasks : t.job = j /\ Running(t)

C13_BoundedRetries ==
    /\ [](\A r \in RunIds :
             \A j \in DOMAIN runs[r].spawned :
                 runs[r].spawned[j] <= jobs[j].max_attempts)
    /\ [][\A r \in RunIds :
             (runs[r].pc = "query" /\ runs'[r].pc = "count") =>
                 \A j \in DOMAIN runs[r].spawned :
                     jobs[j].status \in {"complete", "needs_review"}]_vars
    /\ (RunActive(RunA) ~> ~RunActive(RunA))

\* the step is the job write of a resolve_item call on job j
ResolvesJob(j) == \E x \in resolves : x.job = j /\ x.pc = "job" /\ x \notin resolves'

\* the step spawns task t
Spawns(t) == t \in tasks' /\ ~\E o \in tasks : Same(o, t)

\* C14: scanner, copier and scheduler change the status of a job only along
\* pending -> transferring (the claim of a copy), transferring -> complete,
\* pending or needs_review (the final write of a copy) and transferring ->
\* pending (recovery); a copy is spawned only for a job of the batch that is
\* pending, and it starts only on a pending job
C14_JobTransitions ==
    [][/\ \A j \in JobIds :
             (jobs'[j].status # jobs[j].status /\ ~ResolvesJob(j)) =>
                 \/ /\ jobs[j].status = "pending"
                    /\ jobs'[j].status = "transferring"
                    /\ \E t \in tasks : t.job = j /\ t.pc = "claim" /\ t \notin tasks'
                 \/ /\ jobs[j].status = "transferring"
                    /\ jobs'[j].status \in {"complete", "pending", "needs_review"}
                    /\ \E t \in tasks : t.job = j /\ t.pc = "final" /\ t \notin tasks'
                 \/ /\ jobs[j].status = "transferring"
                    /\ jobs'[j].status = "pending"
                    /\ \E r \in RunIds :
                          /\ IntentOf(r) = jobs[j].intent
                          /\ runs[r].pc = "recover"
                          /\ runs'[r].pc = "query"
       /\ \A t \in tasks' :
             Spawns(t) =>
                 /\ jobs[t.job].status = "pending"
                 /\ \E n \in 1..Len(runs[t.run].batch) : runs[t.run].batch[n] = t.job
       /\ \A t \in tasks :
             (t.pc \in {"load", "claim"} /\ t \notin tasks') =>
                 jobs[t.job].status = "pending"]_vars

\* a job that was copied three times: two attempts went back to pending and the
\* third completed it
C14_Witness ==
    \E j \in JobIds :
        /\ jobs[j].status = "complete"
        /\ jobs[j].attempts = 2
        /\ jobs[j].last_error = "IoError"

\* the changes of Intent.status the lifecycle allows
IntentTransitions ==
    {<<"idle", "scanning">>, <<"scanning", "transferring">>, <<"scanning", "complete">>,
     <<"transferring", "complete">>, <<"transferring", "needs_review">>}

\* C15: scan_intent and run_intent change the status of an intent only along
\* idle -> scanning, scanning -> transferring or complete, transferring ->
\* complete or needs_review; the status of an intent that is complete or
\* needs_review is not changed
C15_IntentTransitions ==
    [][\A i \in IntentIds :
          intents'[i].status # intents[i].status =>
              <<intents[i].status, intents'[i].status>> \in IntentTransitions]_vars

\* the step is a Job Store failure inside copy_and_hash of task t: the progress
\* update, or the fault that takes the blocking thread down
InPipeline(t) ==
    /\ t \in tasks
    /\ t.pc = "pipe"
    /\ \E u \in tasks' : Same(t, u) /\ (u.pc = "pipe" \/ Panicked(u))

\* C16: a Job Store failure met by scan_intent, copy_job or run_intent outside
\* the progress update of the pipeline ends that call with DbError
C16_WriteFailuresReported ==
    [][(budget'.faults < budget.faults /\ resolves' = resolves) =>
          \/ \E t \in tasks : InPipeline(t)
          \/ \E t \in tasks :
                Finishes(t) /\ \E u \in tasks' : Same(t, u) /\ u.ret = "DbError"
          \/ \E i \in IntentIds :
                scans[i].pc # "error" /\ scans'[i].pc = "error" /\ scans'[i].ret = "DbError"
          \/ \E r \in RunIds :
                runs[r].pc # "error" /\ runs'[r].pc = "error" /\ runs'[r].ret = "DbError"]_vars

\* C17: a job in needs_review keeps that status in every step of scan_intent,
\* copy_job and run_intent; its status changes only in the step of resolve_item
\* that acts on it
C17_ReviewFrame ==
    [][\A j \in JobIds :
          jobs[j].status = "needs_review" =>
              \/ jobs'[j].status = "needs_review"
              \/ ResolvesJob(j)]_vars

\* run_intent was called again on an intent finalized as needs_review: it is
\* past its recovery and its batch query, and the job is still in needs_review
C17_Witness ==
    \E j \in JobIds, r \in RunIds :
        /\ jobs[j].status = "needs_review"
        /\ IntentOf(r) = jobs[j].intent
        /\ intents[IntentOf(r)].status = "needs_review"
        /\ runs[r].pc = "count"

\* intent i has no pending and no transferring job
Quiet(i) ==
    \A j \in JobIds :
        jobs[j].intent = i => jobs[j].status \notin {"pending", "transferring"}

\* the intent record as the job records of intent i determine it
Derived(i) ==
    [intents[i] EXCEPT
        !.status = IF CountStatus(i, "needs_review") > 0 THEN "needs_review" ELSE "complete",
        !.completed_files = CountStatus(i, "complete")]

\* C18: on an intent with no pending and no transferring job, no step of
\* run_intent changes a job record or spawns a copy: the recovery changes
\* nothing, the batch query ends the loop, the counts are those of the job
\* records and the finalization writes the status and completed_files derived
\* from them; on an intent a run has already finalized from the same job
\* records, the finalization leaves status and completed_files as they are
C18_QuietRun ==
    [][\A r \in RunIds :
          (Quiet(IntentOf(r)) /\ runs'[r].pc # runs[r].pc /\ RunActive(r)) =>
              /\ jobs' = jobs
              /\ \A t \in tasks' : ~Spawns(t)
              /\ runs[r].pc = "query" => runs'[r].pc \in {"count", "error"}
              /\ runs'[r].pc # "dispatch"
              /\ (runs[r].pc = "count" /\ runs'[r].pc = "finalize") =>
                    runs'[r].result = compute_result(IntentOf(r))
              /\ (runs[r].pc = "finalize" /\ runs'[r].pc = "done"
                     /\ runs[r].result = compute_result(IntentOf(r))) =>
                    /\ intents'[IntentOf(r)] = Derived(IntentOf(r))
                    /\ runs'[r].result = runs[r].result
                    /\ intents[IntentOf(r)] = Derived(IntentOf(r)) => intents' = intents]_vars

\* run_intent was called again on an intent it had finalized as needs_review,
\* with no resolution that sends a job back: it found nothing to recover and
\* nothing pending, and is about to finalize from the same counts
C18_Witness ==
    \E r \in RunIds :
        /\ runs[r].pc = "finalize"
        /\ Quiet(IntentOf(r))
        /\ runs[r].recovered = 0
        /\ runs[r].result = compute_result(IntentOf(r))
        /\ runs[r].result.needs_review > 0
        /\ intents[IntentOf(r)] = Derived(IntentOf(r))

RegularFiles(i) == {n \in 1..Len(fs[i].tree) : fs[i].tree[n].kind = "file"}

\* the jobs of intent i after the step
JobsAfter(i) == {j \in DOMAIN jobs' : jobs'[j].intent = i}

\* C20: when scan_intent returns Ok, the jobs of the intent are one job for
\* every pair of a regular file of the source tree and a destination of the
\* intent, and no other: files x destinations jobs, each with source_path =
\* source root/relative path, dest_path = root of its destination/relative
\* path, status pending, attempts 0 and bytes_transferred 0; jobs_created is
\* that number
C20_ScanCreatesProduct ==
    [][\A i \in IntentIds :
          (scans[i].pc # "done" /\ scans'[i].pc = "done") =>
              LET F == RegularFiles(i)
                  D == 1..Len(fs[i].dests)
              IN /\ Cardinality(JobsAfter(i)) = Cardinality(F) * Cardinality(D)
                 /\ \A f \in F, d \in D :
                       Cardinality({j \in JobsAfter(i) :
                           /\ jobs'[j].destination = d
                           /\ jobs'[j].source_path = JoinPath(SourceRoot(i), f)
                           /\ jobs'[j].dest_path = JoinPath(DestRoot(i, d), f)}) = 1
                 /\ \A j \in JobsAfter(i) :
                       /\ jobs'[j].status = "pending"
                       /\ jobs'[j].attempts = 0
                       /\ jobs'[j].bytes_transferred = 0
                 /\ scans'[i].ret = "Ok"
                 /\ scans'[i].jobs_created = Cardinality(F) * Cardinality(D)]_vars

\* a scan of several files against several destinations has returned, and its
\* jobs are still as it created them
C20_Witness ==
    \E i \in IntentIds :
        /\ scans[i].pc = "done"
        /\ Cardinality(RegularFiles(i)) > 1
        /\ Len(fs[i].dests) > 1
        /\ scans[i].jobs_created = Cardinality(RegularFiles(i)) * Len(fs[i].dests)
        /\ \A j \in JobsOf(i) : jobs[j].status = "pending"

RECURSIVE SizeSum(_, _)
\* the sizes of the entries F of the source tree of intent i, added up
SizeSum(i, F) ==
    IF F = {}
    THEN 0
    ELSE LET f == CHOOSE n \in F : TRUE
         IN fs[i].tree[f].size + SizeSum(i, F \ {f})

\* C21: when scan_intent returns Ok it has written total_files = files x
\* destinations and total_bytes = sum of the file sizes x destinations, and
\* the status complete when it created no job, transferring when it created
\* one or more; a step of the scan takes the status out of scanning only when
\* every job of the scan is in the store
C21_ScanTotals ==
    [][\A i \in IntentIds :
          LET F == RegularFiles(i)
              D == Len(fs[i].dests)
          IN /\ (scans[i].pc # "done" /\ scans'[i].pc = "done") =>
                   /\ intents'[i].total_files = Cardinality(F) * D
                   /\ intents'[i].total_bytes = SizeSum(i, F) * D
                   /\ scans'[i].jobs_created = 0 <=> intents'[i].status = "complete"
                   /\ scans'[i].jobs_created > 0 <=> intents'[i].status = "transferring"
                   /\ intents'[i].completed_files = intents[i].completed_files
             /\ (scans'[i] # scans[i] /\ intents[i].status = "scanning"
                    /\ intents'[i].status # "scanning") =>
                   /\ scans'[i].pc = "done"
                   /\ scans'[i].jobs_created = Cardinality(F) * D
                   /\ Cardinality(JobsAfter(i)) = Cardinality(F) * D]_vars

\* the scan of a tree with files has returned with the intent transferring,
\* and the scan of an empty directory with the intent complete
C21_Witness ==
    \E i, k \in IntentIds :
        /\ scans[i].pc = "done"
        /\ intents[i].status = "transferring"
        /\ intents[i].total_files > Cardinality(RegularFiles(i))
        /\ intents[i].total_bytes > SizeSum(i, RegularFiles(i))
        /\ scans[k].pc = "done"
        /\ fs[k].tree = <<>>
        /\ intents[k].status = "complete"
        /\ intents[k].total_files = 0

\* the entries of the source tree of intent i the walk cannot use: symbolic
\* links, entries the walk cannot read, entries without metadata
SkippedEntries(i) ==
    {n \in 1..Len(fs[i].tree) :
        fs[i].tree[n].kind \in {"symlink", "walk_error", "no_metadata"}}

\* C22: the walk of a source directory does not fail; it counts 1 skipped
\* entry for every symbolic link and every unreadable entry and nothing for a
\* directory, and collects the regular files only; the scan creates no job for
\* a skipped entry or a directory and returns the skipped count
C22_SkippedEntries ==
    [][\A i \in IntentIds :
          /\ (scans[i].pc = "walk" /\ scans'[i].pc # "walk") =>
                /\ scans'[i].pc \in {"create", "final"}
                /\ scans'[i].skipped = Cardinality(SkippedEntries(i))
                /\ Len(scans'[i].entries) = Cardinality(RegularFiles(i))
                /\ \A n \in 1..Len(scans'[i].entries) :
                      scans'[i].entries[n].relative_path \in RegularFiles(i)
          /\ (scans[i].pc # "done" /\ scans'[i].pc = "done") =>
                /\ scans'[i].skipped = Cardinality(SkippedEntries(i))
                /\ \A j \in JobsAfter(i) :
                      \E f \in RegularFiles(i) :
                          jobs'[j].source_path = JoinPath(SourceRoot(i), f)]_vars

\* a scan has returned that met a symlink, unreadable entries and a
\* directory next to its files: three skipped, jobs for the files only
C22_Witness ==
    \E i \in IntentIds :
        /\ scans[i].pc = "done"
        /\ scans[i].skipped = Cardinality(SkippedEntries(i))
        /\ \E n, m, d \in SkippedEntries(i) :
              /\ fs[i].tree[n].kind = "symlink"
              /\ fs[i].tree[m].kind = "walk_error"
              /\ fs[i].tree[d].kind = "no_metadata"
        /\ \E n \in 1..Len(fs[i].tree) : fs[i].tree[n].kind = "dir"
        /\ scans[i].jobs_created > 0

\* so far no copy attempt on a job of intent i has failed: the Job Store has
\* answered every query, no pipeline has panicked, no attempt was written as
\* failed
NoFailure(i) ==
    /\ budget.faults = MaxFaults
    /\ \A j \in JobsOf(i) : jobs[j].attempts = 0 /\ jobs[j].last_error = NONE

\* C23: when run_intent returns Ok on an intent with at least one file whose
\* scan has returned Ok, and no copy attempt has failed, every job of the
\* intent is complete with bytes_transferred = size and two equal digests,
\* and the intent is complete with completed_files = total_files; and the run
\* that follows the scan does return
C23_CleanRun ==
    /\ [][\A r \in RunIds :
             LET i == IntentOf(r)
             IN (/\ runs[r].pc = "finalize"
                 /\ runs'[r].pc = "done"
                 /\ scans[i].pc = "done"
                 /\ RegularFiles(i) # {}
                 /\ NoFailure(i)) =>
                    /\ JobsAfter(i) # {}
                    /\ \A j \in JobsAfter(i) :
                          /\ jobs'[j].status = "complete"
                          /\ jobs'[j].bytes_transferred = jobs'[j].size
                          /\ jobs'[j].source_hash # NoHash
                          /\ jobs'[j].source_hash = jobs'[j].dest_hash
                    /\ intents'[i].status = "complete"
                    /\ intents'[i].completed_files = intents'[i].total_files
                    /\ intents'[i].total_files = Cardinality(JobsAfter(i))]_vars
    /\ ((scans["A"].pc = "done" /\ RunActive(RunA)) ~> ~RunActive(RunA))

\* scan and run have returned Ok with no failed attempt: all jobs of the
\* intent, one more than the scheduler has permits, are complete
C23_Witness ==
    /\ scans["A"].pc = "done"
    /\ runs[RunA].pc = "done"
    /\ NoFailure("A")
    /\ Cardinality(JobsOf("A")) > MAX_CONCURRENCY
    /\ \A j \in JobsOf("A") : jobs[j].status = "complete" /\ jobs[j].bytes_transferred > 0
    /\ intents["A"].status = "complete"
    /\ intents["A"].completed_files = intents["A"].total_files

\* the CopyError an I/O error category is to become
ExpectedError ==
    [k \in IoErrorKinds |->
        IF k = "NotFound" THEN "SourceNotFound"
        ELSE IF k = "PermissionDenied" THEN "PermissionDenied"
        ELSE IF k = "StorageFull" THEN "DiskFull"
        ELSE "IoError"]

\* the variants of CopyError
CopyErrors ==
    {"JobNotFound", "SourceNotFound", "PermissionDenied", "DiskFull", "IoError",
     "HashMismatch", "DbError"}

\* C24: map_io_error gives a CopyError for every I/O error category:
\* SourceNotFound for NotFound, PermissionDenied for PermissionDenied, DiskFull
\* for StorageFull and IoError for every other one; is_retryable holds of
\* IoError alone; and a pipeline that fails without a digest mismatch hands
\* copy_job one of these errors
C24_Classification ==
    [][/\ \A k \in IoErrorKinds : map_io_error(k) = ExpectedError[k]
       /\ \A e \in CopyErrors : is_retryable(e) <=> e = "IoError"
       /\ \A t \in tasks, u \in tasks' :
             (/\ Same(t, u)
              /\ t.pc = "pipe"
              /\ u.pc = "final"
              /\ ~u.res.ok
              /\ u.res.err # "HashMismatch") =>
                 \E k \in IoErrorKinds : u.res = Failed(ExpectedError[k])]_vars

\* a copy that met a full disk is about to write its failure, on a job whose
\* first attempt met an unclassified I/O error and went back to pending
C24_Witness ==
    \E t \in tasks :
        /\ t.pc = "final"
        /\ t.res.err = "DiskFull"
        /\ jobs[t.job].attempts = 1
        /\ jobs[t.job].last_error = "IoError"

\* the error kinds a job or a review item can carry
ErrorKinds ==
    {"source_missing", "permission_denied", "disk_full", "hash_mismatch", "io_error",
     "internal"}

\* the ordered options a review item of an error kind is to offer
ExpectedOptions ==
    [k \in ErrorKinds |->
        IF k = "source_missing" THEN <<"skip", "rescan">>
        ELSE IF k \in {"permission_denied", "disk_full", "io_error"} THEN <<"retry", "skip">>
        ELSE IF k = "hash_mismatch" THEN <<"retry", "skip", "accept">>
        ELSE <<"skip">>]

\* C25: resolution_options gives, in this order, [skip, rescan] for
\* source_missing, [retry, skip] for permission_denied, disk_full and
\* io_error, [retry, skip, accept] for hash_mismatch and [skip] for any other
\* kind; every review item carries the options of its error kind, and when it
\* is created its error kind is the one written on its job
C25_ReviewOptions ==
    [][/\ \A k \in ErrorKinds : resolution_options(k) = ExpectedOptions[k]
       /\ \A v \in DOMAIN reviews' :
             /\ reviews'[v].error_kind \in ErrorKinds
             /\ reviews'[v].options = ExpectedOptions[reviews'[v].error_kind]
       /\ \A v \in Created :
             /\ jobs'[reviews'[v].job].status = "needs_review"
             /\ reviews'[v].error_kind = jobs'[reviews'[v].job].error_kind]_vars

\* a job went to review twice: after three I/O errors, with [retry, skip],
\* and, retried, after a digest mismatch, with [retry, skip, accept]
C25_Witness ==
    \E v, w \in ReviewIds :
        /\ reviews[v].job = reviews[w].job
        /\ reviews[v].error_kind = "io_error"
        /\ reviews[v].options = <<"retry", "skip">>
        /\ reviews[v].resolution = "retry"
        /\ reviews[w].error_kind = "hash_mismatch"
        /\ reviews[w].options = <<"retry", "skip", "accept">>
        /\ reviews[w].resolution = NONE
        /\ jobs[reviews[w].job].error_kind = "hash_mismatch"

\* the step is one of run_intent call r or of a copy task it spawned
StepOf(r) ==
    \/ runs'[r] # runs[r]
    \/ {t \in tasks : t.run = r} # {t \in tasks' : t.run = r}

\* C26: a step of run_intent on intent A, or of one of its copy tasks, leaves
\* every job and intent record of another intent as it is; its batch, its
\* tasks and the review items it creates are of jobs of A, and its counts are
\* those of the jobs of A
C26_RunFrame ==
    [][\A r \in RunIds :
          StepOf(r) =>
              /\ \A j \in JobIds : jobs[j].intent # IntentOf(r) => jobs'[j] = jobs[j]
              /\ \A k \in IntentIds : k # IntentOf(r) => intents'[k] = intents[k]
              /\ \A n \in 1..Len(runs'[r].batch) :
                    jobs[runs'[r].batch[n]].intent = IntentOf(r)
              /\ \A t \in tasks' : t.run = r => jobs[t.job].intent = IntentOf(r)
              /\ \A v \in Created : reviews'[v].intent = IntentOf(r)
              /\ (runs[r].pc = "count" /\ runs'[r].pc = "finalize") =>
                    runs'[r].result.completed =
                        Cardinality({j \in JobsOf(IntentOf(r)) : jobs[j].status = "complete"})]_vars

\* two runs side by side: the run of one intent has finalized it while the
\* run of the other, in the middle of a batch, has jobs in transferring and
\* jobs still pending
C26_Witness ==
    \E r, q \in RunIds :
        /\ IntentOf(r) # IntentOf(q)
        /\ runs[r].pc = "done"
        /\ intents[IntentOf(r)].status = "complete"
        /\ runs[q].pc \in {"dispatch", "await"}
        /\ \E j \in JobsOf(IntentOf(q)) : jobs[j].status = "transferring"
        /\ \E j \in JobsOf(IntentOf(q)) : jobs[j].status = "pending"

\* the Job Store fails the query task t issues in this step
DbFails(t) ==
    /\ t \in tasks
    /\ t \notin tasks'
    /\ budget'.faults < budget.faults

\* C27: when the write that claims the job fails, copy_job returns DbError
\* with nothing copied and the job record as it was; when the final write of
\* the attempt fails, copy_job returns DbError, the job record is as it was
\* and no review item is created
C27_WriteFailures ==
    [][\A t \in tasks :
          /\ (t.pc = "claim" /\ DbFails(t)) =>
                /\ \E u \in tasks' :
                      /\ Same(t, u)
                      /\ u.pc = "done"
                      /\ u.ret = "DbError"
                      /\ u.copied = 0
                      /\ u.res = NoResult
                /\ jobs' = jobs
                /\ reviews' = reviews
          /\ (t.pc = "final" /\ DbFails(t)) =>
                /\ \E u \in tasks' : Same(t, u) /\ u.pc = "done" /\ u.ret = "DbError"
                /\ jobs' = jobs
                /\ reviews' = reviews]_vars

\* the write of needs_review failed: copy_job has returned DbError, the job
\* is still transferring and has no review item
C27_Witness ==
    \E t \in tasks :
        /\ t.pc = "done"
        /\ t.ret = "DbError"
        /\ t.res.err = "SourceNotFound"
        /\ jobs[t.job].status = "transferring"
        /\ jobs[t.job].attempts = 0
        /\ ~\E v \in ReviewIds : reviews[v].job = t.job

\* a job record with its progress field blanked
Low(job) == [job EXCEPT !.bytes_transferred = 0]

\* C28: a progress update that fails changes nothing, one that succeeds
\* changes bytes_transferred of the job alone, and either way the pipeline
\* goes on from the same position; the result of the pipeline and the final
\* write of the attempt do not depend on the bytes_transferred the progress
\* updates left: the completing write stores the bytes copied, the failure
\* write leaves the field as it was
C28_ProgressIndependent ==
    [][\A t \in tasks :
          LET j == t.job
          IN /\ (t.pc = "pipe" /\ \E u \in tasks' : Same(t, u) /\ u.pc = "pipe") =>
                   /\ \E u \in tasks' :
                         /\ Same(t, u)
                         /\ u.copied = t.copied + PROGRESS_INTERVAL * CHUNK_SIZE
                         /\ [u EXCEPT !.copied = 0, !.corrupt = FALSE]
                                = [t EXCEPT !.copied = 0, !.corrupt = FALSE]
                   /\ \A k \in JobIds : Low(jobs'[k]) = Low(jobs[k])
                   /\ \A k \in JobIds : k # j => jobs'[k] = jobs[k]
                   /\ jobs'[j].bytes_transferred \in
                          {jobs[j].bytes_transferred, t.copied + PROGRESS_INTERVAL * CHUNK_SIZE}
                   /\ budget'.faults < budget.faults => jobs' = jobs
                   /\ UNCHANGED <<intents, reviews, runs>>
             /\ (t.pc = "pipe" /\ DbFails(t)) =>
                   \E u \in tasks' : Same(t, u) /\ (u.pc = "pipe" \/ Panicked(u))
             /\ (t.pc = "pipe" /\ \E u \in tasks' : Same(t, u) /\ u.pc = "final") =>
                   \E u \in tasks', f \in FsFaults :
                       /\ Same(t, u)
                       /\ u.res = IF f \in IoErrorKinds
                                  THEN Failed(map_io_error(f))
                                  ELSE Verify(Content(j),
                                              IF u.corrupt \/ t.corrupt \/ f = "corrupt"
                                              THEN Corrupted(Content(j)) ELSE Content(j),
                                              jobs[j].size)
             /\ (t.pc = "final" /\ t \notin tasks' /\ ~DbFails(t)) =>
                   /\ Low(jobs'[j]) =
                         Low(IF t.res.ok
                             THEN CompleteWrite(Low(jobs[j]), t.res)
                             ELSE FailureWrite(Low(jobs[j]), t.res.err, t.attempts, t.max_attempts))
                   /\ jobs'[j].bytes_transferred =
                         IF t.res.ok THEN t.res.bytes_copied ELSE jobs[j].bytes_transferred]_vars

\* the progress update of a copy has failed: the pipeline has gone on to the
\* end of the file while bytes_transferred is still what it was
C28_Witness ==
    \E t \in tasks :
        /\ t.pc = "pipe"
        /\ t.copied = jobs[t.job].size
        /\ t.copied > 0
        /\ jobs[t.job].bytes_transferred = 0
        /\ budget.faults < MaxFaults

\* the error kind written for an error of the pipeline
ExpectedKind ==
    [e \in PipelineErrors |->
        IF e = "SourceNotFound" THEN "source_missing"
        ELSE IF e = "PermissionDenied" THEN "permission_denied"
        ELSE IF e = "DiskFull" THEN "disk_full"
        ELSE IF e = "HashMismatch" THEN "hash_mismatch"
        ELSE "io_error"]

\* C29: the failure write of an attempt stores the error of that attempt as
\* last_error and its kind as error_kind, whether it sends the job back to
\* pending or on to needs_review; a job that carries an error carries the
\* kind of that error
C29_ErrorPersisted ==
    [][/\ \A t \in tasks :
             WritesFailure(t) =>
                 /\ t.res.err \in PipelineErrors
                 /\ jobs'[t.job].status \in {"pending", "needs_review"}
                 /\ jobs'[t.job].last_error = t.res.err
                 /\ jobs'[t.job].error_kind = ExpectedKind[t.res.err]
       /\ \A j \in DOMAIN jobs' :
             jobs'[j].last_error # NONE =>
                 /\ jobs'[j].last_error \in PipelineErrors
                 /\ jobs'[j].error_kind = ExpectedKind[jobs'[j].last_error]]_vars

\* a job whose first attempt met an I/O error and went back to pending, and
\* whose second attempt met a full disk: it is in needs_review with the
\* error of the second attempt
C29_Witness ==
    \E j \in JobIds :
        /\ jobs[j].status = "needs_review"
        /\ jobs[j].attempts = 2
        /\ jobs[j].last_error = "DiskFull"
        /\ jobs[j].error_kind = "disk_full"

\* tasks t and u copy the same job at once
CopyTogether(t, u) ==
    /\ t.run # u.run
    /\ t.job = u.job
    /\ t.pc \in {"pipe", "final"}
    /\ u.pc \in {"pipe", "final"}

\* C30: a copy is spawned for every id of the batch the query returned, with
\* no second look at the job, and the write that claims the job goes through
\* whatever the status of the job is by then: the claim does not keep a second
\* run_intent on the same intent from copying a job that is being copied
C30_ClaimNotAtomic ==
    [][/\ \A t \in tasks' :
             Spawns(t) =>
                 \E n \in 1..Len(runs[t.run].batch) : runs[t.run].batch[n] = t.job
       /\ \A t \in tasks :
             (t.pc = "claim" /\ t \notin tasks') =>
                 /\ jobs'[t.job].status = "transferring"
                 /\ \E u \in tasks' : Same(t, u) /\ u.pc = "pipe"]_vars

\* two calls of run_intent on the same intent each have a task in the
\* pipeline of the same job
C30_Witness ==
    \E t, u \in tasks :
        /\ CopyTogether(t, u)
        /\ t.pc = "pipe"
        /\ u.pc = "pipe"
        /\ jobs[t.job].status = "transferring"

\* a copy task of another call than r is at work on job j
InFlight(j, r) == \E t \in tasks : t.job = j /\ t.run # r /\ t.pc \in {"pipe", "final"}

\* C31: the recovery of a run_intent call resets every transferring job of
\* the intent to pending with bytes_transferred = 0, also a job that a copy
\* task of another call on the same intent is still working on
C31_RecoveryResetsInFlight ==
    [][\A r \in RunIds :
          (runs[r].pc = "recover" /\ runs'[r].pc = "query") =>
              \A j \in JobIds :
                  (jobs[j].intent = IntentOf(r) /\ jobs[j].status = "transferring") =>
                      /\ jobs'[j].status = "pending"
                      /\ jobs'[j].bytes_transferred = 0
                      /\ InFlight(j, r) => tasks' = tasks]_vars

\* a copy has written its progress and is still in the pipeline, and the
\* recovery of the second call has put its job back to pending with no bytes
C31_Witness ==
    \E j \in JobIds, r \in RunIds :
        /\ runs[r].pc = "query"
        /\ jobs[j].status = "pending"
        /\ jobs[j].bytes_transferred = 0
        /\ \E t \in tasks :
              /\ t.job = j
              /\ t.run # r
              /\ t.pc = "pipe"
              /\ t.copied > 0

\* the status a resolution gives the job
StatusFor == [retry |-> "pending", rescan |-> "pending",
              accept |-> "complete", skip |-> "skipped"]

\* resolve_item of record x makes its second write in this step
ActsOnJob(x) == x \in resolves /\ x.pc = "job" /\ [x EXCEPT !.pc = "done"] \in resolves'

\* C32: resolve_item sets resolution and resolved_at of the item, then
\* changes the job of the item: retry and rescan give status pending with
\* attempts 0, accept gives complete, skip gives skipped, and nothing else of
\* the job changes; the item is marked in an earlier step than the job
C32_ResolveItem ==
    [][/\ \A v \in ReviewIds :
             (reviews[v].resolution = NONE /\ reviews'[v].resolution # NONE) =>
                 /\ reviews'[v] = [reviews[v] EXCEPT !.resolution = reviews'[v].resolution,
                                                      !.resolved_at = "now"]
                 /\ reviews'[v].resolution \in Resolutions
                 /\ jobs' = jobs
                 /\ \E x \in resolves' \ resolves :
                       /\ x = [item |-> v, job |-> reviews[v].job,
                               resolution |-> reviews'[v].resolution, pc |-> "job"]
       /\ \A x \in resolves :
             ActsOnJob(x) =>
                 /\ reviews[x.item].resolution = x.resolution
                 /\ reviews[x.item].resolved_at # NONE
                 /\ reviews' = reviews
                 /\ \A j \in JobIds : j # x.job => jobs'[j] = jobs[j]
                 /\ budget'.faults = budget.faults =>
                       /\ jobs'[x.job].status = StatusFor[x.resolution]
                       /\ jobs'[x.job].attempts =
                              IF x.resolution \in {"retry", "rescan"} THEN 0
                              ELSE jobs[x.job].attempts
                       /\ jobs'[x.job] = [jobs[x.job] EXCEPT
                                              !.status = jobs'[x.job].status,
                                              !.attempts = jobs'[x.job].attempts]]_vars

\* a job that had used an attempt is pending with attempts 0 after the retry
\* of its item, which carries the resolution and its time
C32_Witness ==
    \E x \in resolves :
        /\ x.pc = "done"
        /\ x.resolution = "retry"
        /\ reviews[x.item].resolution = "retry"
        /\ reviews[x.item].resolved_at = "now"
        /\ jobs[x.job].status = "pending"
        /\ jobs[x.job].attempts = 0
        /\ jobs[x.job].error_kind # NONE

\* C33: once the resolution of a review item is set, no step changes its
\* resolution or resolved_at and no resolve_item is started for it again;
\* and once resolve_item has finished for an item, no resolve_item acts on
\* the job for that item again
C33_ResolvedOnce ==
    [][/\ \A v \in ReviewIds :
             reviews[v].resolution # NONE =>
                 /\ reviews'[v].resolution = reviews[v].resolution
                 /\ reviews'[v].resolved_at = reviews[v].resolved_at
                 /\ \A y \in resolves' : y.item = v => \E x \in resolves : x.item = v
       /\ \A x \in resolves :
             x.pc = "done" =>
                 /\ x \in resolves'
                 /\ \A y \in resolves \cup resolves' : y.item = x.item => y = x]_vars

\* the item was resolved with retry, resolve_item has finished, and a later
\* run has copied its job to the end: the item still carries the retry
C33_Witness ==
    \E x \in resolves :
        /\ x.pc = "done"
        /\ reviews[x.item].resolution = "retry"
        /\ reviews[x.item].resolved_at = "now"
        /\ jobs[x.job].status = "complete"
        /\ \E r \in RunIds : runs[r].pc = "done"

\* job j was sent back by a retry or rescan resolution
SentBack(j) ==
    \E v \in ReviewIds : reviews[v].job = j /\ reviews[v].resolution \in {"retry", "rescan"}

\* C34: a job that a resolution moved back to pending before a query of the
\* dispatch loop is in the batch of that query; a call of run_intent fails
\* only on a Job Store error; and run_intent never finalizes the intent as
\* complete while a job that a resolution sent back is pending
C34_ResolutionTolerated ==
    [][\A r \in RunIds :
          /\ (runs[r].pc = "query" /\ runs'[r].pc = "dispatch") =>
                \A j \in JobsOf(IntentOf(r)) :
                    (jobs[j].status = "pending" /\ SentBack(j)) =>
                        \E n \in 1..Len(runs'[r].batch) : runs'[r].batch[n] = j
          /\ (runs[r].pc # "error" /\ runs'[r].pc = "error") =>
                budget'.faults < budget.faults
          /\ (runs[r].pc = "finalize" /\ runs'[r].pc = "done"
                 /\ intents'[IntentOf(r)].status = "complete") =>
                \A j \in JobsOf(IntentOf(r)) :
                    ~(jobs'[j].status = "pending" /\ SentBack(j))]_vars

\* C35: a job with status pending has attempts < max_attempts
C35_PendingHasBudget ==
    \A j \in JobIds :
        jobs[j].status = "pending" => jobs[j].attempts < jobs[j].max_attempts

\* a job is pending again with its last attempt left, after failed attempts
\* that were requeued
C35_Witness ==
    \E j \in JobIds :
        /\ jobs[j].status = "pending"
        /\ jobs[j].max_attempts >= 1
        /\ jobs[j].attempts = jobs[j].max_attempts - 1
        /\ jobs[j].attempts > 0
        /\ is_retryable(jobs[j].last_error)

\* C36: the recovery step of run_intent changes only status and
\* bytes_transferred, and only of the jobs of its intent that are
\* transferring: their attempts, last_error, error_kind and hashes stay, and
\* every other job is unchanged; a recovery that fails changes no job
C36_RecoveryFrame ==
    [][\A r \in RunIds :
          (runs[r].pc = "recover" /\ runs'[r].pc # "recover") =>
              \A j \in JobIds :
                  IF /\ runs'[r].pc = "query"
                     /\ jobs[j].intent = IntentOf(r)
                     /\ jobs[j].status = "transferring"
                  THEN /\ jobs'[j].attempts = jobs[j].attempts
                       /\ jobs'[j].max_attempts = jobs[j].max_attempts
                       /\ jobs'[j].last_error = jobs[j].last_error
                       /\ jobs'[j].error_kind = jobs[j].error_kind
                       /\ jobs'[j].source_hash = jobs[j].source_hash
                       /\ jobs'[j].dest_hash = jobs[j].dest_hash
                       /\ jobs'[j] = [jobs[j] EXCEPT
                                         !.status = jobs'[j].status,
                                         !.bytes_transferred = jobs'[j].bytes_transferred]
                  ELSE jobs'[j] = jobs[j]]_vars

\* a run has just recovered a job whose earlier attempt had failed: the job
\* is pending with the attempt and the error it had
C36_Witness ==
    \E r \in RunIds :
        /\ runs[r].pc = "query"
        /\ runs[r].recovered > 0
        /\ TasksOf(r) = {}
        /\ \E j \in JobsOf(IntentOf(r)) :
              /\ jobs[j].status = "pending"
              /\ jobs[j].bytes_transferred = 0
              /\ jobs[j].attempts > 0
              /\ jobs[j].last_error # NONE
              /\ jobs[j].error_kind # NONE

\* the jobs of intent i for the file f and the destination d
JobsFor(i, f, d) ==
    {j \in JobsOf(i) : /\ jobs[j].source_path = JoinPath(SourceRoot(i), f)
                       /\ jobs[j].dest_path = JoinPath(DestRoot(i, d), f)}

\* C37: scan_intent runs whatever the status of the intent is and whatever
\* jobs the store holds: each of its creating steps adds one new pending job
\* and leaves every job of the store as it is, a scan that returns Ok has
\* added files x destinations jobs to those the intent had and has written
\* total_files = files x destinations, the count of this scan alone
C37_ScanAddsJobs ==
    [][\A i \in IntentIds :
          LET N == Cardinality(RegularFiles(i)) * Len(fs[i].dests)
          IN /\ (scans[i].pc = "start" /\ scans'[i].pc # "start") =>
                   budget'.faults < budget.faults \/ scans'[i].pc = "walk"
             /\ (scans[i].pc = "create" /\ scans'[i] # scans[i]
                    /\ budget'.faults = budget.faults) =>
                   /\ \A j \in JobIds : j \in DOMAIN jobs' /\ jobs'[j] = jobs[j]
                   /\ Cardinality(JobsAfter(i)) = Cardinality(JobsOf(i)) + 1
                   /\ \A j \in JobsAfter(i) \ JobsOf(i) :
                         jobs'[j].status = "pending" /\ jobs'[j].attempts = 0
                   /\ scans'[i].jobs_created = scans[i].jobs_created + 1
             /\ (scans[i].pc # "done" /\ scans'[i].pc = "done") =>
                   /\ scans'[i].jobs_created = N
                   /\ intents'[i].total_files = N]_vars

\* the same source was scanned twice: every (file, destination) pair has two
\* jobs, all pending, and total_files is half the number of jobs
C37_Witness ==
    \E i \in IntentIds :
        /\ scans[i].pc = "done"
        /\ RegularFiles(i) # {}
        /\ \A f \in RegularFiles(i), d \in 1..Len(fs[i].dests) :
              Cardinality(JobsFor(i, f, d)) = 2
        /\ \A j \in JobsOf(i) : jobs[j].status = "pending"
        /\ Cardinality(JobsOf(i)) = 2 * intents[i].total_files
        /\ intents[i].total_files = Cardinality(RegularFiles(i)) * Len(fs[i].dests)

\* the errors of scan_intent that come from the locations and the source path
LocationErrors ==
    {"SourceLocationNotFound", "DestLocationNotFound", "SourcePathNotExists",
     "SourcePathNotDir"}

\* the error scan_intent returns for the locations of intent i
ExpectedScanError(i) ==
    CASE fs[i].source = "no_location" -> "SourceLocationNotFound"
      [] fs[i].source = "missing" -> "SourcePathNotExists"
      [] fs[i].source = "file" -> "SourcePathNotDir"
      [] OTHER -> "DestLocationNotFound"

\* C38: a scan_intent that returns IntentNotFound has changed no record; one
\* that returns SourceLocationNotFound, DestLocationNotFound,
\* SourcePathNotExists or SourcePathNotDir has created no job and leaves the
\* intent in status scanning with the totals it had; a job is created only
\* for an intent whose source is a directory and whose destinations all resolve
C38_ScanErrors ==
    [][/\ \A i \in DOMAIN scans :
             (scans[i].pc # "error" /\ scans'[i].pc = "error") =>
                 /\ scans'[i].ret = "IntentNotFound" =>
                       /\ i \notin IntentIds
                       /\ intents' = intents
                       /\ jobs' = jobs
                       /\ reviews' = reviews
                 /\ scans'[i].ret \in LocationErrors =>
                       /\ scans'[i].ret = ExpectedScanError(i)
                       /\ scans'[i].jobs_created = 0
                       /\ JobsAfter(i) = {}
                       /\ intents'[i] = [NewIntent EXCEPT !.status = "scanning"]
       /\ \A i \in IntentIds :
             JobsAfter(i) # JobsOf(i) =>
                 /\ fs[i].source = "dir"
                 /\ \A d \in 1..Len(fs[i].dests) : fs[i].dests[d] = "ok"]_vars

\* every kind of error has been returned: the scan of the unknown id has
\* touched nothing, the four others left their intent in scanning with no job,
\* also the one whose first destination resolves and whose second does not
C38_Witness ==
    /\ \A i \in MissingIntents : scans[i].ret = "IntentNotFound"
    /\ \A e \in LocationErrors : \E i \in IntentIds : scans[i].ret = e
    /\ \A i \in IntentIds :
          scans[i].ret \in LocationErrors =>
              intents[i].status = "scanning" /\ JobsOf(i) = {}
    /\ \E i \in IntentIds :
          /\ scans[i].ret = "DestLocationNotFound"
          /\ fs[i].dests[1] = "ok"
          /\ Len(walk_source(fs[i].tree).entries) > 0

\* C39: the completing write leaves bytes_transferred at the number of bytes
\* copied, the size of the file; no step changes bytes_transferred of a job
\* that is complete; and while a job is transferring, up to and including its
\* completing write, no step lowers its stored bytes_transferred
C39_ProgressInOrder ==
    [][\A j \in JobIds :
          /\ (jobs[j].status # "complete" /\ jobs'[j].status = "complete"
                 /\ \E t \in tasks : t.job = j /\ Finishes(t)) =>
                jobs'[j].bytes_transferred = jobs[j].size
          /\ jobs[j].status = "complete" =>
                jobs'[j].bytes_transferred = jobs[j].bytes_transferred
          /\ (jobs[j].status = "transferring"
                 /\ jobs'[j].status \in {"transferring", "complete"}) =>
                jobs'[j].bytes_transferred >= jobs[j].bytes_transferred]_vars

====
